---- MODULE Spec2Model ----
(***************************************************************************)
(* A model of the generic object kernel of src/src/objects.c: the          *)
(* structural copy (CopyObj / COPY_OBJ / CLEAN_OBJ with forwarding         *)
(* records), the recursive printer (PrintObj / ViewObj with the ancestor   *)
(* arrays) and the identity exchange (SWITCH_OBJ / FORCE_SWITCH_OBJ).      *)
(*                                                                         *)
(* Each part has its own specification (SpecCopy, SpecPrint, SpecSwitch);  *)
(* a specification keeps the variables of the other parts at their initial *)
(* values.                                                                 *)
(***************************************************************************)
EXTENDS Integers, Sequences, FiniteSets, TLC

VARIABLES
    \* ---- the heap and the structural copy ----
    bags,        \* the heap: handle -> [tnum, data]; data[k+1] is ADDR_OBJ(h)[k]
    stack,       \* the C stack of the copy/clean bodies that are in their loop
    call,        \* the pending COPY_OBJ / CLEAN_OBJ call, not yet dispatched
    ret,         \* the value returned by the last body that returned
    pc,          \* where CopyObj is: idle, copy, clean, done, error
    rootArg,     \* <obj> of CopyObj( <obj>, <mut> )
    mutArg,      \* <mut> of CopyObj( <obj>, <mut> )
    newCopy,     \* CopyObj's local <new>; what it returns
    copiedObjs,  \* TLS->copiedObjs
    bags0,       \* history: the heap when CopyObj was called
    allocLog,    \* history: one record per NewBag of a copy, in order
    errObj,      \* history: the object ErrorQuit was raised for (0: none)
    \* ---- regions ----
    ds,          \* DS_BAG: handle -> region (0: no region, the public one)
    swLog,       \* history: the last two calls of SWITCH_OBJ and
                 \* FORCE_SWITCH_OBJ, each with the heap it found
    \* ---- the other entry points ----
    entry,       \* the call of CLONE_OBJ, MakeImmutable, a copy handler or
                 \* SET_TYPE_..., with the heap it found
    race,        \* a call of SWITCH_OBJ or FORCE_SWITCH_OBJ, statement by
                 \* statement, and what another thread reads meanwhile
    saved,       \* the stream written by a save body and read by a load body
    \* ---- InitKernel, and a second thread that prints ----
    tables,      \* the dispatch tables and the statement InitKernel is at
    other,       \* PrintObj in a second thread: its locals, what it has seen
    \* ---- PrintObj and ViewObj ----
    PrintObjThis,
    PrintObjIndex,
    PrintObjDepth,
    PrintObjThiss,    \* index 0 .. MAXPRINTDEPTH-1
    PrintObjIndices,  \* index 0 .. MAXPRINTDEPTH-1
    LastPV,
    pstack,      \* the open PrintObj/ViewObj calls whose body is running
    pcall,       \* the pending call of PrintObj or ViewObj
    intr,        \* what SyIsIntr() will answer
    viewPrints,  \* whether the view bodies call PrintObj on their object
    pstate,      \* run, or error after ErrorQuit
    out,         \* what Pr has printed and which bodies were dispatched
    touched      \* history: the indices of the ancestor arrays used so far

copyVars == << bags, stack, call, ret, pc, rootArg, mutArg, newCopy,
               copiedObjs, bags0, allocLog, errObj >>

printVars == << PrintObjThis, PrintObjIndex, PrintObjDepth, PrintObjThiss,
                PrintObjIndices, LastPV, pstack, pcall, intr, viewPrints,
                pstate, out, touched >>

entryVars == << entry, race, saved >>

moreVars == << tables, other >>

vars == << copyVars, ds, swLog, entryVars, printVars, moreVars >>

(***************************************************************************)
(* Object references.  0 is the null reference, a positive number is the   *)
(* handle of a bag, a negative number is an immediate value: odd for a     *)
(* small integer, even for a finite field element.                         *)
(***************************************************************************)
IS_INTOBJ(o) == o < 0 /\ o % 2 = 1

IS_FFE(o) == o < 0 /\ o % 2 = 0

IS_BAG_REF(o) == o > 0

(***************************************************************************)
(* Type tags.  The tags are kept by name; the ranges are the ones          *)
(* InitKernel loops over.  T + COPYING is the name T followed by +COPYING. *)
(***************************************************************************)
ConstantTNUMs == {"T_INT", "T_FFE"}

RecordTNUMs == {"T_PREC"}

ListTNUMs == {"T_PLIST"}

ExternalTNUMs == {"T_COMOBJ", "T_POSOBJ", "T_DATOBJ"}

RealTNUMs == ConstantTNUMs \cup RecordTNUMs \cup ListTNUMs \cup ExternalTNUMs

COPYING(t) == t \o "+COPYING"

CopyingTNUMs == { COPYING(t) : t \in RealTNUMs }

UNCOPYING(t) == CHOOSE u \in RealTNUMs : COPYING(u) = t

TNUM_OBJ(b, o) ==
    IF IS_INTOBJ(o) THEN "T_INT"
    ELSE IF IS_FFE(o) THEN "T_FFE"
    ELSE b[o].tnum

\* ADDR_OBJ(obj)[k]
ADDR_OBJ(b, o, k) == b[o].data[k + 1]

\* SIZE_OBJ(obj)/sizeof(Obj): sizes are counted in words
SIZE_WORDS(b, o) == Len(b[o].data)

(***************************************************************************)
(* Plain lists and component records, as far as the copy uses them.        *)
(***************************************************************************)
\* ELM_PLIST( list, pos ): word 0 of a plain list is its length
ELM_PLIST(b, list, pos) == ADDR_OBJ(b, list, pos)

\* LEN_PREC( rec ): word 1; GET_RNAM_PREC( rec, i ): word 2i;
\* GET_ELM_PREC( rec, i ): word 2i+1
LEN_PREC(b, rec) == ADDR_OBJ(b, rec, 1)

GET_RNAM_PREC(b, rec, i) == ADDR_OBJ(b, rec, 2 * i)

GET_ELM_PREC(b, rec, i) == ADDR_OBJ(b, rec, 2 * i + 1)

(***************************************************************************)
(* Kinds.  Word 0 of a component, positional or data object is its kind    *)
(* (type) object; the kind carries the filters of the object.  A kind is   *)
(* modelled as a bag whose words 1 and 2 are the values of                 *)
(* IsMutableObjFilt and IsCopyableObjFilt; the kind of every kind is the   *)
(* second of KindBags, which is not mutable.                               *)
(***************************************************************************)
KindBag(m, c) ==
    [tnum |-> "T_POSOBJ",
     data |-> << 2, IF m THEN 1 ELSE 0, IF c THEN 1 ELSE 0 >>]

KindBags ==
    << KindBag(TRUE, TRUE), KindBag(FALSE, TRUE),
       KindBag(TRUE, FALSE), KindBag(FALSE, FALSE) >>

Kinds == 1 .. Len(KindBags)

\* DoFilter( filt, obj ) == True, for the two filters of this file
DoFilter(b, w, o) == ADDR_OBJ(b, ADDR_OBJ(b, o, 0), w) = 1

\* the kind that differs from <kind> only in IsMutableObjFilt being reset
ResetMutableKind(b, kind) ==
    CHOOSE k \in Kinds : b[k].data = [b[kind].data EXCEPT ![2] = 0]

(***************************************************************************)
(* The dispatch tables, as InitKernel fills them.                          *)
(***************************************************************************)
IsMutableObjFuncs ==
    [t \in RealTNUMs |->
        IF t \in ExternalTNUMs THEN "IsMutableObjObject"
        ELSE IF t \in ConstantTNUMs THEN "IsMutableObjNot"
        ELSE "IsMutableObjError"]

IsCopyableObjFuncs ==
    [t \in RealTNUMs |->
        IF t \in ExternalTNUMs THEN "IsCopyableObjObject"
        ELSE IF t \in ConstantTNUMs THEN "IsCopyableObjNot"
        ELSE "IsCopyableObjError"]

CopyObjFuncs ==
    [t \in RealTNUMs \cup CopyingTNUMs |->
        CASE t = "T_POSOBJ"          -> "CopyObjPosObj"
          [] t = COPYING("T_POSOBJ") -> "CopyObjPosObjCopy"
          [] t = "T_COMOBJ"          -> "CopyObjComObj"
          [] t = COPYING("T_COMOBJ") -> "CopyObjComObjCopy"
          [] t = "T_DATOBJ"          -> "CopyObjDatObj"
          [] t = COPYING("T_DATOBJ") -> "CopyObjDatObjCopy"
          [] t \in ConstantTNUMs     -> "CopyObjConstant"
          [] t \in RealTNUMs \ (ConstantTNUMs \cup ExternalTNUMs)
                                     -> "CopyObjError"
          [] OTHER                   -> "NULL"]

CleanObjFuncs ==
    [t \in RealTNUMs \cup CopyingTNUMs |->
        CASE t = "T_POSOBJ"          -> "CleanObjPosObj"
          [] t = COPYING("T_POSOBJ") -> "CleanObjPosObjCopy"
          [] t = "T_COMOBJ"          -> "CleanObjComObj"
          [] t = COPYING("T_COMOBJ") -> "CleanObjComObjCopy"
          [] t = "T_DATOBJ"          -> "CleanObjDatObj"
          [] t = COPYING("T_DATOBJ") -> "CleanObjDatObjCopy"
          [] t \in ConstantTNUMs     -> "CleanObjConstant"
          [] t \in RealTNUMs \ (ConstantTNUMs \cup ExternalTNUMs)
                                     -> "CleanObjError"
          [] OTHER                   -> "NULL"]

IsMutableObjObject(b, o) == DoFilter(b, 1, o)

IsCopyableObjObject(b, o) == DoFilter(b, 2, o)

IS_MUTABLE_OBJ(b, o) ==
    /\ IsMutableObjFuncs[TNUM_OBJ(b, o)] = "IsMutableObjObject"
    /\ IsMutableObjObject(b, o)

IS_COPYABLE_OBJ(b, o) ==
    /\ IsCopyableObjFuncs[TNUM_OBJ(b, o)] = "IsCopyableObjObject"
    /\ IsCopyableObjObject(b, o)

(***************************************************************************)
(* The collaborators of the copy: NewBag, RESET_FILTER_OBJ, RetypeBag.     *)
(***************************************************************************)
\* NewBag( tnum, size ): a zero-filled bag
NewBag(t, size) == [tnum |-> t, data |-> [k \in 1 .. size |-> 0]]

\* CALL_2ARGS( RESET_FILTER_OBJ, obj, IsMutableObjFilt ), on the bag of <obj>
RESET_FILTER_OBJ(b, bag) ==
    [bag EXCEPT !.data[1] = ResetMutableKind(b, bag.data[1])]

RetypeBag(bag, t) == [bag EXCEPT !.tnum = t]

(***************************************************************************)
(* The pieces of the copy and clean bodies.                                *)
(***************************************************************************)
\* mutant: the copy keeps the kind of the source whatever <mut> is
PosObjCopyBag_NeverResets(b, obj, m) ==
    [NewBag(TNUM_OBJ(b, obj), SIZE_WORDS(b, obj))
        EXCEPT !.data[1] = ADDR_OBJ(b, obj, 0)]

\* CopyObjPosObj, "make a copy": the bag <copy> before the subvalues
PosObjCopyBag(b, obj, m) ==
    LET c == [NewBag(TNUM_OBJ(b, obj), SIZE_WORDS(b, obj))
                 EXCEPT !.data[1] = ADDR_OBJ(b, obj, 0)]
    IN  IF m # 0 THEN c ELSE RESET_FILTER_OBJ(b, c)

\* CopyObjComObj, "make a copy": as for a posobj, and SET_LEN_PREC
ComObjCopyBag(b, obj, m) ==
    LET c == [NewBag(TNUM_OBJ(b, obj), SIZE_WORDS(b, obj))
                 EXCEPT !.data[1] = ADDR_OBJ(b, obj, 0),
                        !.data[2] = LEN_PREC(b, obj)]
    IN  IF m # 0 THEN c ELSE RESET_FILTER_OBJ(b, c)

\* mutant: the words after the kind are left zero
DatObjCopyBag_KindOnly(b, obj, m) ==
    LET c == [NewBag(TNUM_OBJ(b, obj), SIZE_WORDS(b, obj))
                 EXCEPT !.data[1] = ADDR_OBJ(b, obj, 0)]
    IN  IF m # 0 THEN c ELSE RESET_FILTER_OBJ(b, c)

\* CopyObjDatObj, "make a copy" and "copy the subvalues": the words after
\* the kind are copied as they are
DatObjCopyBag(b, obj, m) ==
    LET c == [NewBag(TNUM_OBJ(b, obj), SIZE_WORDS(b, obj))
                 EXCEPT !.data[1] = ADDR_OBJ(b, obj, 0)]
        d == IF m # 0 THEN c ELSE RESET_FILTER_OBJ(b, c)
    IN  [d EXCEPT !.data = [k \in 1 .. Len(d.data) |->
                               IF k = 1 THEN d.data[1] ELSE b[obj].data[k]]]

\* "leave a forwarding pointer": the plain list <tmp> of length 2
ForwardingRecord(first, copy) ==
    [tnum |-> "T_PLIST", data |-> << 2, first, copy >>]

\* ADDR_OBJ(obj)[0] = tmp;  RetypeBag( obj, TNUM_OBJ(obj) + COPYING )
MarkCopied(bag, tmp) ==
    RetypeBag([bag EXCEPT !.data[1] = tmp], COPYING(bag.tnum))

\* mutant: a marked object is returned itself, not its copy
CopyObjPosObjCopy_ReturnsOriginal(b, obj) == obj

\* CopyObjPosObjCopy, CopyObjComObjCopy, CopyObjDatObjCopy
CopyObjPosObjCopy(b, obj) == ELM_PLIST(b, ADDR_OBJ(b, obj, 0), 2)

CopyObjComObjCopy(b, obj) == ELM_PLIST(b, ADDR_OBJ(b, obj, 0), 2)

CopyObjDatObjCopy(b, obj) == ELM_PLIST(b, ADDR_OBJ(b, obj, 0), 2)

\* mutant: the wrong element of the forwarding record is put back
Cleaned_WrongElement(b, obj) ==
    RetypeBag([b[obj] EXCEPT !.data[1] = ELM_PLIST(b, ADDR_OBJ(b, obj, 0), 2)],
              UNCOPYING(b[obj].tnum))

\* "remove the forwarding pointer" and "now it is cleaned"
Cleaned(b, obj) ==
    RetypeBag([b[obj] EXCEPT !.data[1] = ELM_PLIST(b, ADDR_OBJ(b, obj, 0), 1)],
              UNCOPYING(b[obj].tnum))

\* mutant: no test for mutability
PosObjVerdict_NoMutableTest(b, obj) ==
    IF ~ IS_COPYABLE_OBJ(b, obj) THEN "error" ELSE "copy"

\* mutant: no test for copyability
PosObjVerdict_NoCopyableTest(b, obj) ==
    IF ~ IS_MUTABLE_OBJ(b, obj) THEN "same" ELSE "copy"

\* the tests at the head of CopyObjPosObj, CopyObjComObj and CopyObjDatObj:
\* "same" (return obj), "error" (ErrorQuit) or "copy" (go on)
PosObjVerdict(b, obj) ==
    IF ~ IS_MUTABLE_OBJ(b, obj) THEN "same"
    ELSE IF ~ IS_COPYABLE_OBJ(b, obj) THEN "error"
    ELSE "copy"

ComObjVerdict(b, obj) ==
    IF ~ IS_MUTABLE_OBJ(b, obj) THEN "same"
    ELSE IF ~ IS_COPYABLE_OBJ(b, obj) THEN "error"
    ELSE "copy"

DatObjVerdict(b, obj) ==
    IF ~ IS_MUTABLE_OBJ(b, obj) THEN "same"
    ELSE IF ~ IS_COPYABLE_OBJ(b, obj) THEN "error"
    ELSE "copy"

(***************************************************************************)
(* The machine.  A body that recurses keeps a frame on <stack> while it is *)
(* in its loop; COPY_OBJ and CLEAN_OBJ are dispatched from <call>.         *)
(***************************************************************************)
NoCall == [op |-> "none", obj |-> 0]

Frame(fn, obj, copy) ==
    [fn |-> fn, obj |-> obj, copy |-> copy, i |-> 1, wait |-> FALSE]

Top == stack[Len(stack)]

Pop == SubSeq(stack, 1, Len(stack) - 1)

SetTop(f) == [stack EXCEPT ![Len(stack)] = f]

CopyCalled(fn) ==
    /\ pc = "copy"
    /\ call.op = "COPY_OBJ"
    /\ CopyObjFuncs[TNUM_OBJ(bags, call.obj)] = fn

CleanCalled(fn) ==
    /\ pc = "clean"
    /\ call.op = "CLEAN_OBJ"
    /\ CleanObjFuncs[TNUM_OBJ(bags, call.obj)] = fn

InLoop(fn) ==
    /\ call = NoCall
    /\ stack # << >>
    /\ Top.fn = fn

\* a body returns <v> without having changed anything
Return(v) ==
    /\ ret' = v
    /\ call' = NoCall
    /\ UNCHANGED << bags, stack, pc, rootArg, mutArg, newCopy, copiedObjs,
                    bags0, allocLog, errObj >>

\* ErrorQuit: control leaves every open body and does not come back
ErrorQuit(obj) ==
    /\ pc' = "error"
    /\ stack' = << >>
    /\ call' = NoCall
    /\ errObj' = obj
    /\ UNCHANGED << bags, ret, rootArg, mutArg, newCopy, copiedObjs, bags0,
                    allocLog >>

\* the bags <copy> and <tmp> are allocated, <obj> is marked, the loop begins
BeginCopy(fn, obj, copyBag) ==
    LET copy == Len(bags) + 1
        tmp  == Len(bags) + 2
    IN  /\ bags' = [(bags \o << copyBag,
                               ForwardingRecord(ADDR_OBJ(bags, obj, 0), copy) >>)
                       EXCEPT ![obj] = MarkCopied(bags[obj], tmp)]
        /\ allocLog' = Append(allocLog, [src |-> obj, copy |-> copy, tmp |-> tmp])
        /\ stack' = Append(stack, Frame(fn, obj, copy))
        /\ call' = NoCall
        /\ UNCHANGED << ret, pc, rootArg, mutArg, newCopy, copiedObjs, bags0,
                        errObj >>

CopyObjConstant ==
    /\ CopyCalled("CopyObjConstant")
    /\ UNCHANGED << ds, swLog, entryVars, printVars, moreVars >>
    /\ Return(call.obj)

CopyObjPosObj ==
    /\ CopyCalled("CopyObjPosObj")
    /\ UNCHANGED << ds, swLog, entryVars, printVars, moreVars >>
    /\ IF PosObjVerdict(bags, call.obj) = "same"
         THEN Return(call.obj)
         ELSE IF PosObjVerdict(bags, call.obj) = "error"
                THEN ErrorQuit(call.obj)
                ELSE BeginCopy("CopyObjPosObj", call.obj,
                               PosObjCopyBag(bags, call.obj, mutArg))

\* one turn of "copy the subvalues" of CopyObjPosObj
CopyObjPosObjLoop ==
    /\ InLoop("CopyObjPosObj")
    /\ UNCHANGED << ds, swLog, entryVars, printVars, moreVars >>
    /\ LET f == Top IN
       IF f.wait
         THEN \* ADDR_OBJ(copy)[i] = tmp;  and i++
              /\ bags' = [bags EXCEPT ![f.copy].data[f.i + 1] = ret]
              /\ stack' = SetTop([f EXCEPT !.i = f.i + 1, !.wait = FALSE])
              /\ UNCHANGED << call, ret >>
         ELSE IF f.i < SIZE_WORDS(bags, f.obj)
                THEN IF ADDR_OBJ(bags, f.obj, f.i) # 0
                       THEN /\ call' = [op |-> "COPY_OBJ",
                                        obj |-> ADDR_OBJ(bags, f.obj, f.i)]
                            /\ stack' = SetTop([f EXCEPT !.wait = TRUE])
                            /\ UNCHANGED << bags, ret >>
                       ELSE /\ stack' = SetTop([f EXCEPT !.i = f.i + 1])
                            /\ UNCHANGED << bags, call, ret >>
                ELSE \* return copy
                     /\ stack' = Pop
                     /\ ret' = f.copy
                     /\ UNCHANGED << bags, call >>
    /\ UNCHANGED << pc, rootArg, mutArg, newCopy, copiedObjs, bags0, allocLog,
                    errObj >>

CopyObjPosObjCopyCall ==
    /\ CopyCalled("CopyObjPosObjCopy")
    /\ UNCHANGED << ds, swLog, entryVars, printVars, moreVars >>
    /\ Return(CopyObjPosObjCopy(bags, call.obj))

CopyObjComObj ==
    /\ CopyCalled("CopyObjComObj")
    /\ UNCHANGED << ds, swLog, entryVars, printVars, moreVars >>
    /\ IF ComObjVerdict(bags, call.obj) = "same"
         THEN Return(call.obj)
         ELSE IF ComObjVerdict(bags, call.obj) = "error"
                THEN ErrorQuit(call.obj)
                ELSE BeginCopy("CopyObjComObj", call.obj,
                               ComObjCopyBag(bags, call.obj, mutArg))

\* one turn of "copy the subvalues" of CopyObjComObj
CopyObjComObjLoop ==
    /\ InLoop("CopyObjComObj")
    /\ UNCHANGED << ds, swLog, entryVars, printVars, moreVars >>
    /\ LET f == Top IN
       IF f.wait
         THEN \* SET_ELM_PREC(copy,i,tmp);  and i++
              /\ bags' = [bags EXCEPT ![f.copy].data[2 * f.i + 2] = ret]
              /\ stack' = SetTop([f EXCEPT !.i = f.i + 1, !.wait = FALSE])
              /\ UNCHANGED << call, ret >>
         ELSE IF f.i <= LEN_PREC(bags, f.obj)
                THEN \* SET_RNAM_PREC(copy,i,GET_RNAM_PREC(obj,i)); COPY_OBJ
                     /\ bags' = [bags EXCEPT ![f.copy].data[2 * f.i + 1] =
                                               GET_RNAM_PREC(bags, f.obj, f.i)]
                     /\ call' = [op |-> "COPY_OBJ",
                                 obj |-> GET_ELM_PREC(bags, f.obj, f.i)]
                     /\ stack' = SetTop([f EXCEPT !.wait = TRUE])
                     /\ UNCHANGED ret
                ELSE /\ stack' = Pop
                     /\ ret' = f.copy
                     /\ UNCHANGED << bags, call >>
    /\ UNCHANGED << pc, rootArg, mutArg, newCopy, copiedObjs, bags0, allocLog,
                    errObj >>

CopyObjComObjCopyCall ==
    /\ CopyCalled("CopyObjComObjCopy")
    /\ UNCHANGED << ds, swLog, entryVars, printVars, moreVars >>
    /\ Return(CopyObjComObjCopy(bags, call.obj))

\* CopyObjDatObj has no call in its loop: the body is one step
CopyObjDatObj ==
    /\ CopyCalled("CopyObjDatObj")
    /\ UNCHANGED << ds, swLog, entryVars, printVars, moreVars >>
    /\ IF DatObjVerdict(bags, call.obj) = "same"
         THEN Return(call.obj)
         ELSE IF DatObjVerdict(bags, call.obj) = "error"
                THEN ErrorQuit(call.obj)
                ELSE LET obj  == call.obj
                         copy == Len(bags) + 1
                         tmp  == Len(bags) + 2
                     IN  /\ bags' =
                              [(bags \o << DatObjCopyBag(bags, obj, mutArg),
                                           ForwardingRecord(ADDR_OBJ(bags, obj, 0),
                                                            copy) >>)
                                  EXCEPT ![obj] = MarkCopied(bags[obj], tmp)]
                         /\ allocLog' = Append(allocLog,
                               [src |-> obj, copy |-> copy, tmp |-> tmp])
                         /\ ret' = copy
                         /\ call' = NoCall
                         /\ UNCHANGED << stack, pc, rootArg, mutArg, newCopy,
                                         copiedObjs, bags0, errObj >>

CopyObjDatObjCopyCall ==
    /\ CopyCalled("CopyObjDatObjCopy")
    /\ UNCHANGED << ds, swLog, entryVars, printVars, moreVars >>
    /\ Return(CopyObjDatObjCopy(bags, call.obj))

\* CleanObjConstant, CleanObjPosObj, CleanObjComObj, CleanObjDatObj: empty
CleanObjConstant ==
    /\ CleanCalled("CleanObjConstant")
    /\ UNCHANGED << ds, swLog, entryVars, printVars, moreVars >>
    /\ Return(ret)

CleanObjPosObj ==
    /\ CleanCalled("CleanObjPosObj")
    /\ UNCHANGED << ds, swLog, entryVars, printVars, moreVars >>
    /\ Return(ret)

CleanObjComObj ==
    /\ CleanCalled("CleanObjComObj")
    /\ UNCHANGED << ds, swLog, entryVars, printVars, moreVars >>
    /\ Return(ret)

CleanObjDatObj ==
    /\ CleanCalled("CleanObjDatObj")
    /\ UNCHANGED << ds, swLog, entryVars, printVars, moreVars >>
    /\ Return(ret)

CleanObjPosObjCopy ==
    /\ CleanCalled("CleanObjPosObjCopy")
    /\ UNCHANGED << ds, swLog, entryVars, printVars, moreVars >>
    /\ bags' = [bags EXCEPT ![call.obj] = Cleaned(bags, call.obj)]
    /\ stack' = Append(stack, Frame("CleanObjPosObjCopy", call.obj, 0))
    /\ call' = NoCall
    /\ UNCHANGED << ret, pc, rootArg, mutArg, newCopy, copiedObjs, bags0,
                    allocLog, errObj >>

\* one turn of "clean the subvalues" of CleanObjPosObjCopy
CleanObjPosObjCopyLoop ==
    /\ InLoop("CleanObjPosObjCopy")
    /\ UNCHANGED << ds, swLog, entryVars, printVars, moreVars >>
    /\ LET f == Top IN
       IF f.wait
         THEN /\ stack' = SetTop([f EXCEPT !.i = f.i + 1, !.wait = FALSE])
              /\ UNCHANGED call
         ELSE IF f.i < SIZE_WORDS(bags, f.obj)
                THEN IF ADDR_OBJ(bags, f.obj, f.i) # 0
                       THEN /\ call' = [op |-> "CLEAN_OBJ",
                                        obj |-> ADDR_OBJ(bags, f.obj, f.i)]
                            /\ stack' = SetTop([f EXCEPT !.wait = TRUE])
                       ELSE /\ stack' = SetTop([f EXCEPT !.i = f.i + 1])
                            /\ UNCHANGED call
                ELSE /\ stack' = Pop
                     /\ UNCHANGED call
    /\ UNCHANGED << bags, ret, pc, rootArg, mutArg, newCopy, copiedObjs, bags0,
                    allocLog, errObj >>

CleanObjComObjCopy ==
    /\ CleanCalled("CleanObjComObjCopy")
    /\ UNCHANGED << ds, swLog, entryVars, printVars, moreVars >>
    /\ bags' = [bags EXCEPT ![call.obj] = Cleaned(bags, call.obj)]
    /\ stack' = Append(stack, Frame("CleanObjComObjCopy", call.obj, 0))
    /\ call' = NoCall
    /\ UNCHANGED << ret, pc, rootArg, mutArg, newCopy, copiedObjs, bags0,
                    allocLog, errObj >>

\* one turn of "clean the subvalues" of CleanObjComObjCopy
CleanObjComObjCopyLoop ==
    /\ InLoop("CleanObjComObjCopy")
    /\ UNCHANGED << ds, swLog, entryVars, printVars, moreVars >>
    /\ LET f == Top IN
       IF f.wait
         THEN /\ stack' = SetTop([f EXCEPT !.i = f.i + 1, !.wait = FALSE])
              /\ UNCHANGED call
         ELSE IF f.i <= LEN_PREC(bags, f.obj)
                THEN /\ call' = [op |-> "CLEAN_OBJ",
                                 obj |-> GET_ELM_PREC(bags, f.obj, f.i)]
                     /\ stack' = SetTop([f EXCEPT !.wait = TRUE])
                ELSE /\ stack' = Pop
                     /\ UNCHANGED call
    /\ UNCHANGED << bags, ret, pc, rootArg, mutArg, newCopy, copiedObjs, bags0,
                    allocLog, errObj >>

CleanObjDatObjCopy ==
    /\ CleanCalled("CleanObjDatObjCopy")
    /\ UNCHANGED << ds, swLog, entryVars, printVars, moreVars >>
    /\ bags' = [bags EXCEPT ![call.obj] = Cleaned(bags, call.obj)]
    /\ call' = NoCall
    /\ UNCHANGED << stack, ret, pc, rootArg, mutArg, newCopy, copiedObjs,
                    bags0, allocLog, errObj >>

(***************************************************************************)
(* CopyObj( <obj>, <mut> ): COPY_OBJ, then CLEAN_OBJ.                      *)
(***************************************************************************)
\* TLS->copiedObjs = NULL;  new = COPY_OBJ( obj, mut );
CopyObjCall ==
    /\ pc = "idle"
    /\ UNCHANGED << ds, swLog, entryVars, printVars, moreVars >>
    /\ copiedObjs' = 0
    /\ call' = [op |-> "COPY_OBJ", obj |-> rootArg]
    /\ pc' = "copy"
    /\ UNCHANGED << bags, stack, ret, rootArg, mutArg, newCopy, bags0,
                    allocLog, errObj >>

\* COPY_OBJ has returned;  CLEAN_OBJ( obj );
CopyObjClean ==
    /\ pc = "copy"
    /\ UNCHANGED << ds, swLog, entryVars, printVars, moreVars >>
    /\ call = NoCall
    /\ stack = << >>
    /\ newCopy' = ret
    /\ call' = [op |-> "CLEAN_OBJ", obj |-> rootArg]
    /\ pc' = "clean"
    /\ UNCHANGED << bags, stack, ret, rootArg, mutArg, copiedObjs, bags0,
                    allocLog, errObj >>

\* CLEAN_OBJ has returned;  TLS->copiedObjs = NULL;  return new;
CopyObjReturn ==
    /\ pc = "clean"
    /\ UNCHANGED << ds, swLog, entryVars, printVars, moreVars >>
    /\ call = NoCall
    /\ stack = << >>
    /\ copiedObjs' = 0
    /\ pc' = "done"
    /\ UNCHANGED << bags, stack, call, ret, rootArg, mutArg, newCopy, bags0,
                    allocLog, errObj >>

(***************************************************************************)
(* No call of the other entry points is made.                              *)
(***************************************************************************)
NoEntry == [op |-> "none"]

NoRace == [op |-> "none"]

NoSaved == [op |-> "none"]

EntryIdle ==
    /\ entry = NoEntry
    /\ race = NoRace
    /\ saved = NoSaved

\* InitKernel is not followed and no second thread prints
NoTables == [at |-> "none"]

NoOther == [at |-> "none"]

MoreIdle ==
    /\ tables = NoTables
    /\ other = NoOther

(***************************************************************************)
(* Regions.  DS_BAG(obj) is the region of a bag, 0 for a bag without one.  *)
(* A region has an owner and, possibly, a name.                            *)
(***************************************************************************)
TLS == "main"

Regions ==
    << [owner |-> "main",  name |-> "main"],
       [owner |-> "other", name |-> "worker"],
       [owner |-> "other", name |-> ""] >>

\* the name object of the public region
PublicRegionName == "public"

\* the name object of a region, "" when it has none
GetRegionName(region) == Regions[region].name

\* a bag without a region, or with a region of the calling thread, is readable
CheckRead(d, obj) == d[obj] = 0 \/ Regions[d[obj]].owner = TLS

(***************************************************************************)
(* PrintObj and ViewObj.  The source sets MAXPRINTDEPTH to 1024L; it is    *)
(* scaled down here so that the nesting reaches it.                        *)
(***************************************************************************)
MAXPRINTDEPTH == 5

NoPCall == [fn |-> "none", obj |-> 0]

\* what is printed: <t> names the text or the body dispatched to, <o> is the
\* object, <x> the depth, the selector index or the region, <s> a string
Tok(t, o, x, s) == [t |-> t, o |-> o, x |-> x, s |-> s]

\* the globals after InitKernel, no call of PrintObj or ViewObj open
PrintIdle ==
    /\ PrintObjThis = 0
    /\ PrintObjIndex = 0
    /\ PrintObjDepth = 0
    /\ PrintObjThiss = [i \in 0 .. MAXPRINTDEPTH - 1 |-> 0]
    /\ PrintObjIndices = [i \in 0 .. MAXPRINTDEPTH - 1 |-> 0]
    /\ LastPV = 0
    /\ pstack = << >>
    /\ pcall = NoPCall
    /\ intr = FALSE
    /\ viewPrints = FALSE
    /\ pstate = "run"
    /\ out = << >>
    /\ touched = {}

IS_MARKABLE(b, obj) == TNUM_OBJ(b, obj) \in RecordTNUMs \cup ListTNUMs

\* the indices i with i < PrintObjDepth-1; the comparison is one of unsigned
\* numbers, so that a depth of 0 bounds nothing and the loop leaves the array
MarkScan(depth) ==
    IF depth - 1 < 0 THEN 0 .. MAXPRINTDEPTH ELSE 0 .. depth - 2

MarkHits(thiss, depth, obj) ==
    { i \in MarkScan(depth) \cap DOMAIN thiss : thiss[i] = obj }

\* mutant: no object is ever found among the ancestors
IS_MARKED_Never(b, thiss, depth, obj) == FALSE

IS_MARKED(b, thiss, depth, obj) ==
    IS_MARKABLE(b, obj) /\ MarkHits(thiss, depth, obj) # {}

\* the first index at which IS_MARKED and the path loop find <obj>
FirstMark(thiss, depth, obj) ==
    CHOOSE i \in MarkHits(thiss, depth, obj) :
        \A j \in MarkHits(thiss, depth, obj) : i <= j

\* the indices of PrintObjThiss that IS_MARKED reads
IS_MARKED_Reads(b, thiss, depth, obj) ==
    IF ~ IS_MARKABLE(b, obj) THEN {}
    ELSE IF MarkHits(thiss, depth, obj) # {}
           THEN 0 .. FirstMark(thiss, depth, obj)
           ELSE MarkScan(depth)

PrintInaccessibleObject(d, obj) ==
    LET region  == d[obj]
        nameobj == IF region = 0 THEN PublicRegionName
                                 ELSE GetRegionName(region)
        name    == IF nameobj # "" THEN nameobj ELSE "%p"
    IN  Tok("inaccessible", obj, region, name)

\* mutant: no access test
Inaccessible_Never(d, obj) == FALSE

\* the test that makes PrintObj and ViewObj return at once
Inaccessible(d, obj) == IS_BAG_REF(obj) /\ ~ CheckRead(d, obj)

\* the path printers: lists and records print a selector, every other type
\* has PrintPathError
PrintPathFuncs ==
    [t \in RealTNUMs |->
        IF t \in RecordTNUMs THEN "PrintPathPRec"
        ELSE IF t \in ListTNUMs THEN "PrintPathList"
        ELSE "PrintPathError"]

\* the loop "for ( i = 0; PrintObjThis != PrintObjThiss[i]; i++ )": the
\* ancestors it passes, up to the first one that has PrintPathError
PathLength(thiss, depth, this) == FirstMark(thiss, depth, this)

PathFails(b, thiss, depth, this) ==
    { i \in 0 .. PathLength(thiss, depth, this) - 1 :
        PrintPathFuncs[TNUM_OBJ(b, thiss[i])] = "PrintPathError" }

PathError(b, thiss, depth, this) == PathFails(b, thiss, depth, this) # {}

PathStop(b, thiss, depth, this) ==
    IF PathError(b, thiss, depth, this)
      THEN CHOOSE i \in PathFails(b, thiss, depth, this) :
               \A j \in PathFails(b, thiss, depth, this) : i <= j
      ELSE PathLength(thiss, depth, this)

\* mutant: the loop starts at the ancestor that is <this> and goes down to
\* the current position
PathOut_FromAncestor(b, thiss, indices, depth, this) ==
    [k \in 1 .. depth - 1 - FirstMark(thiss, depth, this) |->
        Tok(PrintPathFuncs[TNUM_OBJ(b, thiss[FirstMark(thiss, depth, this) + k - 1])],
            thiss[FirstMark(thiss, depth, this) + k - 1],
            indices[FirstMark(thiss, depth, this) + k - 1], "")]

PathOut(b, thiss, indices, depth, this) ==
    [k \in 1 .. PathStop(b, thiss, depth, this) |->
        Tok(PrintPathFuncs[TNUM_OBJ(b, thiss[k - 1])], thiss[k - 1],
            indices[k - 1], "")]

\* the sub-objects a print or view body prints: the words after the first
Subs(b, obj) ==
    IF IS_BAG_REF(obj) THEN SubSeq(b[obj].data, 2, Len(b[obj].data))
                       ELSE << >>

\* the locals of an open call, and the globals as they were before the call
PFrame(fn, obj, lastPV, fromview) ==
    [fn |-> fn, obj |-> obj, lastPV |-> lastPV, fromview |-> fromview, j |-> 1,
     before |-> [PrintObjDepth |-> PrintObjDepth, PrintObjThis |-> PrintObjThis,
                 PrintObjIndex |-> PrintObjIndex, LastPV |-> LastPV]]

PTop == pstack[Len(pstack)]

PPop == SubSeq(pstack, 1, Len(pstack) - 1)

\* a body of the call on top is running and has no call pending
InBody(fn) ==
    /\ pstate = "run"
    /\ pcall = NoPCall
    /\ pstack # << >>
    /\ PTop.fn = fn

\* the calls a body makes: a print body prints each sub-object; a view body
\* views each sub-object, or prints its own object
BodyCalls(b, f) ==
    IF f.fn = "ViewObj" /\ viewPrints
      THEN << [fn |-> "PrintObj", obj |-> f.obj] >>
      ELSE [k \in 1 .. Len(Subs(b, f.obj)) |->
               [fn |-> f.fn, obj |-> Subs(b, f.obj)[k]]]

\* mutant: one level too many is allowed
DepthAllows_OneMore(depth) == depth <= MAXPRINTDEPTH

\* the test "PrintObjDepth < MAXPRINTDEPTH" before the dispatch
DepthAllows(depth) == depth < MAXPRINTDEPTH

\* mutant: the selector index of the superobject is not restored
Leave_KeepsIndex(fromview, lastPV, depth, this, index, thiss, indices, tch) ==
    LET d       == IF fromview THEN depth ELSE depth - 1
        restore == ~ fromview /\ 0 < d
    IN  /\ PrintObjDepth' = d
        /\ PrintObjThis' = IF restore THEN thiss[d - 1] ELSE this
        /\ PrintObjIndex' = index
        /\ LastPV' = lastPV
        /\ touched' = tch \cup
                        (IF restore
                           THEN {d - 1} \cup
                                IS_MARKED_Reads(bags, thiss, d, thiss[d - 1])
                           ELSE {})

\* "done with <obj>": the depth, the superobject and LastPV are restored
Leave(fromview, lastPV, depth, this, index, thiss, indices, tch) ==
    LET d       == IF fromview THEN depth ELSE depth - 1
        restore == ~ fromview /\ 0 < d
    IN  /\ PrintObjDepth' = d
        /\ PrintObjThis' = IF restore THEN thiss[d - 1] ELSE this
        /\ PrintObjIndex' = IF restore THEN indices[d - 1] ELSE index
        /\ LastPV' = lastPV
        /\ touched' = tch \cup
                        (IF restore
                           THEN {d - 1} \cup
                                IS_MARKED_Reads(bags, thiss, d, thiss[d - 1])
                           ELSE {})

\* PrintObj and ViewObj from the assignment of lastPV on: the superobject is
\* remembered, <obj> becomes the current object, and then either its body is
\* dispatched to, or the notice or the path is printed and the call is done
Handle(fn, obj, fromview, o) ==
    LET lastPV  == LastPV
        save    == ~ fromview /\ 0 < PrintObjDepth
        thiss   == IF save
                     THEN [PrintObjThiss EXCEPT ![PrintObjDepth - 1] = PrintObjThis]
                     ELSE PrintObjThiss
        indices == IF save
                     THEN [PrintObjIndices EXCEPT ![PrintObjDepth - 1] = PrintObjIndex]
                     ELSE PrintObjIndices
        depth   == IF fromview THEN PrintObjDepth ELSE PrintObjDepth + 1
        this    == IF fromview THEN PrintObjThis ELSE obj
        index   == IF fromview THEN PrintObjIndex ELSE 0
        tch     == touched \cup (IF save THEN {PrintObjDepth - 1} ELSE {})
                           \cup IS_MARKED_Reads(bags, thiss, depth, this)
    IN  /\ PrintObjThiss' = thiss
        /\ PrintObjIndices' = indices
        /\ pcall' = NoPCall
        /\ IF ~ IS_MARKED(bags, thiss, depth, this)
             THEN IF DepthAllows(depth)
                    THEN /\ out' = Append(o, Tok(fn, this, depth, "body"))
                         /\ pstack' = Append(pstack,
                                             PFrame(fn, this, lastPV, fromview))
                         /\ PrintObjDepth' = depth
                         /\ PrintObjThis' = this
                         /\ PrintObjIndex' = index
                         /\ LastPV' = IF fn = "PrintObj" THEN 1 ELSE 2
                         /\ touched' = tch
                         /\ UNCHANGED pstate
                    ELSE /\ out' = Append(o, Tok(fn, this, depth,
                                                 "too many recursion levels!"))
                         /\ Leave(fromview, lastPV, depth, this, index,
                                  thiss, indices, tch)
                         /\ UNCHANGED << pstack, pstate >>
             ELSE IF PathError(bags, thiss, depth, this)
                    THEN /\ out' = Append(o, Tok(fn, this, depth, "~")) \o
                                   PathOut(bags, thiss, indices, depth, this)
                         /\ pstate' = "error"
                         /\ pstack' = << >>
                         /\ PrintObjDepth' = depth
                         /\ PrintObjThis' = this
                         /\ PrintObjIndex' = index
                         /\ LastPV' = IF fn = "PrintObj" THEN 1 ELSE 2
                         /\ touched' = tch
                    ELSE /\ out' = Append(o, Tok(fn, this, depth, "~")) \o
                                   PathOut(bags, thiss, indices, depth, this)
                         /\ Leave(fromview, lastPV, depth, this, index,
                                  thiss, indices, tch)
                         /\ UNCHANGED << pstack, pstate >>

\* mutant: PrintObj never takes itself to be called from the view of <obj>
fromview_Never(lastPV, obj, this) == FALSE

\* fromview = (lastPV == 2) && (obj == PrintObjThis)
fromview(lastPV, obj, this) == lastPV = 2 /\ obj = this

PrintObj ==
    /\ pstate = "run"
    /\ pcall.fn = "PrintObj"
    /\ UNCHANGED << copyVars, ds, swLog, entryVars, moreVars, viewPrints >>
    /\ intr' = FALSE
    /\ LET obj == pcall.obj
           o   == IF intr
                    THEN Append(out, Tok("PrintObj", obj, PrintObjDepth,
                                         "user interrupt while printing"))
                    ELSE out
       IN  IF Inaccessible(ds, obj)
             THEN /\ out' = Append(o, PrintInaccessibleObject(ds, obj))
                  /\ pcall' = NoPCall
                  /\ UNCHANGED << PrintObjThis, PrintObjIndex, PrintObjDepth,
                                  PrintObjThiss, PrintObjIndices, LastPV,
                                  pstack, pstate, touched >>
             ELSE Handle("PrintObj", obj, fromview(LastPV, obj, PrintObjThis), o)

ViewObj ==
    /\ pstate = "run"
    /\ pcall.fn = "ViewObj"
    /\ UNCHANGED << copyVars, ds, swLog, entryVars, moreVars, viewPrints, intr >>
    /\ LET obj == pcall.obj
       IN  IF Inaccessible(ds, obj)
             THEN /\ out' = Append(out, PrintInaccessibleObject(ds, obj))
                  /\ pcall' = NoPCall
                  /\ UNCHANGED << PrintObjThis, PrintObjIndex, PrintObjDepth,
                                  PrintObjThiss, PrintObjIndices, LastPV,
                                  pstack, pstate, touched >>
             ELSE Handle("ViewObj", obj, FALSE, out)

\* a body sets the selector index and calls PrintObj or ViewObj for its next
\* sub-object; a view body that prints its own object sets no index
BodyStep(fn) ==
    /\ InBody(fn)
    /\ PTop.j <= Len(BodyCalls(bags, PTop))
    /\ pcall' = BodyCalls(bags, PTop)[PTop.j]
    /\ PrintObjIndex' = IF BodyCalls(bags, PTop)[PTop.j].obj = PTop.obj
                           /\ BodyCalls(bags, PTop)[PTop.j].fn # fn
                          THEN PrintObjIndex ELSE PTop.j
    /\ pstack' = [pstack EXCEPT ![Len(pstack)].j = PTop.j + 1]
    /\ UNCHANGED << copyVars, ds, swLog, entryVars, moreVars, viewPrints, intr, PrintObjThis,
                    PrintObjDepth, PrintObjThiss, PrintObjIndices, LastPV,
                    pstate, out, touched >>

\* the body has returned: the call ends with "done with <obj>"
BodyDone(fn) ==
    /\ InBody(fn)
    /\ PTop.j > Len(BodyCalls(bags, PTop))
    /\ Leave(PTop.fromview, PTop.lastPV, PrintObjDepth, PrintObjThis,
             PrintObjIndex, PrintObjThiss, PrintObjIndices, touched)
    /\ pstack' = PPop
    /\ UNCHANGED << copyVars, ds, swLog, entryVars, moreVars, viewPrints, intr, PrintObjThiss,
                    PrintObjIndices, pcall, pstate, out >>

PrintObjObject == BodyStep("PrintObj")

PrintObjDone == BodyDone("PrintObj")

ViewObjMethod == BodyStep("ViewObj")

ViewObjDone == BodyDone("ViewObj")

(***************************************************************************)
(* The object graphs CopyObj is called on.                                 *)
(***************************************************************************)
\* the number of words after the kind (posobj, datobj) or of components
\* (comobj) of the root object
NumSlots == 2

Root == Len(KindBags) + 1

Second == Len(KindBags) + 2

Third == Len(KindBags) + 3

SmallInt == 0 - 1

SlotVals == {0, SmallInt, Root, Second, Third}

SrcKinds == { k \in Kinds : KindBags[k] # KindBag(FALSE, FALSE) }

ComData(ch) ==
    [k \in 1 .. 2 * Len(ch) |-> IF k % 2 = 1 THEN (k + 1) \div 2 ELSE ch[k \div 2]]

MkObj(t, kind, ch) ==
    [tnum |-> t,
     data |-> IF t = "T_COMOBJ" THEN << kind, Len(ch) >> \o ComData(ch)
                                ELSE << kind >> \o ch]

\* the objects with <n> slots; a component is never the null reference
SourceObjs(n) ==
    { MkObj(t, k, ch) : t \in ExternalTNUMs, k \in SrcKinds,
                        ch \in [1 .. n -> SlotVals] }
      \ { MkObj("T_COMOBJ", k, ch) : k \in SrcKinds,
            ch \in { c \in [1 .. n -> SlotVals] : \E j \in 1 .. n : c[j] = 0 } }

DefaultObj == MkObj("T_DATOBJ", 1, << 0 >>)

\* the references an object holds: a data object holds none
Refs(b, o) ==
    IF b[o].tnum \in {"T_POSOBJ", COPYING("T_POSOBJ")}
      THEN { b[o].data[k] : k \in 2 .. Len(b[o].data) } \cap 1 .. Len(b)
      ELSE IF b[o].tnum \in {"T_COMOBJ", COPYING("T_COMOBJ")}
             THEN { GET_ELM_PREC(b, o, i) : i \in 1 .. LEN_PREC(b, o) }
                     \cap 1 .. Len(b)
             ELSE {}

\* every object of the heap is one CopyObj can reach from the root, or it is
\* the default object
InitCopy ==
    /\ \E r \in SourceObjs(NumSlots), s \in SourceObjs(1), t \in SourceObjs(0),
          rt \in {Root, SmallInt} :
          /\ bags = KindBags \o << r, s, t >>
          /\ rootArg = rt
          /\ (rt # Root => r = MkObj("T_DATOBJ", 1, [k \in 1 .. NumSlots |-> 0]))
          /\ (rt # Root \/ Second \notin Refs(bags, Root) => s = DefaultObj)
          /\ (rt # Root \/ Third \notin Refs(bags, Root) \cup
                   (IF Second \in Refs(bags, Root) THEN Refs(bags, Second) ELSE {})
                => t = MkObj("T_DATOBJ", 1, << >>))
    /\ mutArg \in {0, 1}
    /\ bags0 = bags
    /\ stack = << >>
    /\ call = NoCall
    /\ ret = 0
    /\ pc = "idle"
    /\ newCopy = 0
    /\ copiedObjs = 0
    /\ allocLog = << >>
    /\ errObj = 0
    /\ ds = [h \in 1 .. Len(bags) |-> 1]
    /\ swLog = << >>
    /\ EntryIdle
    /\ PrintIdle
    /\ MoreIdle

NextCopy ==
    \/ CopyObjCall
    \/ CopyObjConstant
    \/ CopyObjPosObj
    \/ CopyObjPosObjLoop
    \/ CopyObjPosObjCopyCall
    \/ CopyObjComObj
    \/ CopyObjComObjLoop
    \/ CopyObjComObjCopyCall
    \/ CopyObjDatObj
    \/ CopyObjDatObjCopyCall
    \/ CopyObjClean
    \/ CleanObjConstant
    \/ CleanObjPosObj
    \/ CleanObjComObj
    \/ CleanObjDatObj
    \/ CleanObjPosObjCopy
    \/ CleanObjPosObjCopyLoop
    \/ CleanObjComObjCopy
    \/ CleanObjComObjCopyLoop
    \/ CleanObjDatObjCopy
    \/ CopyObjReturn

SpecCopy == InitCopy /\ [][NextCopy]_vars

(***************************************************************************)
(* Printing and viewing: one call of PrintObj or ViewObj on the object     *)
(* Root, which is a plain list or a positional object and references       *)
(* itself, a second object and small integers.                             *)
(***************************************************************************)
PrintTNUMs == {"T_PLIST", "T_POSOBJ"}

PrintRefs == {SmallInt, Root, Second}

SubsChoices ==
    { << >> } \cup { << a >> : a \in PrintRefs }
              \cup { << a, b >> : a \in PrintRefs, b \in PrintRefs }

\* word 0 is the length of a plain list, the kind of a positional object
PrintBag(t, subs) ==
    [tnum |-> t,
     data |-> << IF t = "T_PLIST" THEN Len(subs) ELSE 1 >> \o subs]

EmptyList == PrintBag("T_PLIST", << >>)

InitPrint ==
    /\ \E t1 \in PrintTNUMs, t2 \in PrintTNUMs,
          s1 \in SubsChoices, s2 \in SubsChoices :
          /\ bags = KindBags \o << PrintBag(t1, s1), PrintBag(t2, s2) >>
          /\ ds \in [1 .. Len(bags) -> 0 .. Len(Regions)]
          /\ \A k \in Kinds : ds[k] = 0
          /\ ds[Root] \in {1, 2}
          /\ Inaccessible(ds, Root) => bags[Root] = EmptyList
          /\ (Inaccessible(ds, Root) \/ \A k \in 1 .. Len(s1) : s1[k] # Second)
                => bags[Second] = EmptyList /\ ds[Second] = 1
    /\ pcall \in { [fn |-> f, obj |-> Root] : f \in {"PrintObj", "ViewObj"} }
    /\ viewPrints \in BOOLEAN
    /\ pcall.fn = "PrintObj" => ~ viewPrints
    /\ intr \in BOOLEAN
    /\ (pcall.fn = "ViewObj" /\ ~ viewPrints) => ~ intr
    /\ PrintObjThis = 0
    /\ PrintObjIndex = 0
    /\ PrintObjDepth = 0
    /\ PrintObjThiss = [i \in 0 .. MAXPRINTDEPTH - 1 |-> 0]
    /\ PrintObjIndices = [i \in 0 .. MAXPRINTDEPTH - 1 |-> 0]
    /\ LastPV = 0
    /\ pstack = << >>
    /\ pstate = "run"
    /\ out = << >>
    /\ touched = {}
    /\ swLog = << >>
    /\ EntryIdle
    /\ MoreIdle
    /\ bags0 = bags
    /\ stack = << >>
    /\ call = NoCall
    /\ ret = 0
    /\ pc = "idle"
    /\ rootArg = 0
    /\ mutArg = 0
    /\ newCopy = 0
    /\ copiedObjs = 0
    /\ allocLog = << >>
    /\ errObj = 0

NextPrint ==
    \/ PrintObj
    \/ ViewObj
    \/ PrintObjObject
    \/ PrintObjDone
    \/ ViewObjMethod
    \/ ViewObjDone

SpecPrint == InitPrint /\ [][NextPrint]_vars

\* the body of every call returns, and so does the call
SpecPrintFair == SpecPrint /\ WF_vars(NextPrint)

(***************************************************************************)
(* What the claims about the copy speak of.                                *)
(***************************************************************************)
Handles(b) == 1 .. Len(b)

\* the words of an object that hold references to subobjects
RefSlots(b, o) ==
    IF b[o].tnum \in {"T_POSOBJ", COPYING("T_POSOBJ")}
      THEN 2 .. Len(b[o].data)
      ELSE IF b[o].tnum \in {"T_COMOBJ", COPYING("T_COMOBJ")}
             THEN { 2 * i + 2 : i \in 1 .. LEN_PREC(b, o) }
             ELSE {}

IsMutableBag(b, o) ==
    /\ o \in Handles(b)
    /\ b[o].tnum \in ExternalTNUMs
    /\ IS_MUTABLE_OBJ(b, o)

IsImmutableObj(b, o) ==
    \/ IS_INTOBJ(o)
    \/ IS_FFE(o)
    \/ /\ o \in Handles(b)
       /\ b[o].tnum \in ExternalTNUMs
       /\ ~ IS_MUTABLE_OBJ(b, o)

RECURSIVE Closure(_, _, _)
\* the least set that holds <S> and, with an object that <through> admits,
\* the objects it refers to
Closure(b, S, through) ==
    LET T == S \cup UNION { Refs(b, o) : o \in { x \in S : through[x] } }
    IN  IF T = S THEN S ELSE Closure(b, T, through)

\* the objects reachable from <r>
Reachable(b, r) ==
    IF r \in Handles(b) THEN Closure(b, {r}, [o \in Handles(b) |-> TRUE]) ELSE {}

\* the mutable objects reachable from <r> through mutable objects only
MutReachable(b, r) ==
    { o \in (IF r \in Handles(b)
               THEN Closure(b, {r}, [o \in Handles(b) |-> IsMutableBag(b, o)])
               ELSE {}) : IsMutableBag(b, o) }

CopiedSrcs == { allocLog[k].src : k \in 1 .. Len(allocLog) }

\* the copy made for <v>, and <v> itself if none was made
Image(v) ==
    IF v \in CopiedSrcs
      THEN allocLog[CHOOSE k \in 1 .. Len(allocLog) : allocLog[k].src = v].copy
      ELSE v

\* every slot of every copy holds the image of what the source slot held
CopiesMirrorSources ==
    \A k \in 1 .. Len(allocLog) :
        \A w \in RefSlots(bags0, allocLog[k].src) :
            bags[allocLog[k].copy].data[w] = Image(bags0[allocLog[k].src].data[w])

\* one copy for each object of <V>, no copy for any other object
OneCopyEach(V) ==
    /\ CopiedSrcs = V
    /\ Len(allocLog) = Cardinality(V)
    /\ \A j, k \in 1 .. Len(allocLog) :
          allocLog[j].copy = allocLog[k].copy => j = k
    /\ newCopy = Image(rootArg)
    /\ CopiesMirrorSources

(***************************************************************************)
(* C1.  After CopyObj has returned, every bag of the source graph is what  *)
(* it was when CopyObj was called (tag, first word, other words), and no   *)
(* bag of the heap has a +COPYING tag.                                     *)
(***************************************************************************)
C1_SourceRestored ==
    pc = "done" =>
        /\ \A h \in Handles(bags0) : bags[h] = bags0[h]
        /\ \A h \in Handles(bags) : bags[h].tnum \notin CopyingTNUMs

\* a copy of a cyclic graph, with a shared subobject, has returned
C1_Witness ==
    /\ pc = "done"
    /\ Len(allocLog) >= 2
    /\ Root \in Refs(bags0, Second)
    /\ \A w \in RefSlots(bags0, Root) : bags0[Root].data[w] = Second

(***************************************************************************)
(* C2, as claimed, for a mutable root.  After CopyObj has returned, each   *)
(* mutable copyable object reachable from the root has exactly one copy,   *)
(* and the copies are linked as the sources are.                           *)
(***************************************************************************)
C2_EveryReachableMutableCopied ==
    (pc = "done" /\ IsMutableBag(bags0, rootArg)) =>
        OneCopyEach({ o \in Reachable(bags0, rootArg) :
                        IsMutableBag(bags0, o) /\ IS_COPYABLE_OBJ(bags0, o) })

(***************************************************************************)
(* C2, amended.  After CopyObj has returned, each mutable object reachable *)
(* from the root through mutable objects only has exactly one copy, and no *)
(* other object has one; a slot of a copy holds the copy of the object the *)
(* source slot held, so shared subobjects are shared and cycles are cycles *)
(* in the copy.                                                            *)
(***************************************************************************)
C2_OneCopyPerVisitedObject ==
    pc = "done" => OneCopyEach(MutReachable(bags0, rootArg))

\* two slots of the root held the same object, which refers back to the root
C2_Witness ==
    /\ pc = "done"
    /\ bags0[Root].tnum = "T_POSOBJ"
    /\ bags0[Root].data[2] = Second
    /\ bags0[Root].data[3] = Second
    /\ Root \in Refs(bags0, Second)
    /\ Len(allocLog) = 2
    /\ bags[newCopy].data[2] = bags[newCopy].data[3]
    /\ newCopy \in Refs(bags, bags[newCopy].data[2])

(***************************************************************************)
(* C3.  COPY_OBJ on an immutable object (an immediate value, or a          *)
(* component, positional or data object that is not mutable) returns the   *)
(* object, allocates nothing and writes nothing; CopyObj on it returns it  *)
(* with the heap as it was; a slot of a copy whose source slot held an     *)
(* immutable object holds that same object.                                *)
(***************************************************************************)
C3_CopyOfImmutableStep ==
    (/\ pc = "copy"
     /\ call.op = "COPY_OBJ"
     /\ IsImmutableObj(bags, call.obj))
        => (/\ ret' = call.obj
            /\ bags' = bags
            /\ allocLog' = allocLog
            /\ stack' = stack)

C3_CopyOfImmutableDone ==
    /\ (pc = "done" /\ IsImmutableObj(bags0, rootArg)) =>
           (newCopy = rootArg /\ bags = bags0)
    /\ pc = "done" =>
           \A k \in 1 .. Len(allocLog) :
               \A w \in RefSlots(bags0, allocLog[k].src) :
                   IsImmutableObj(bags0, bags0[allocLog[k].src].data[w]) =>
                       bags[allocLog[k].copy].data[w] =
                           bags0[allocLog[k].src].data[w]

C3_ImmutableIsItsOwnCopy ==
    [][C3_CopyOfImmutableStep]_vars /\ []C3_CopyOfImmutableDone

\* the copy of a mutable root shares an immutable positional subobject
C3_Witness ==
    /\ pc = "done"
    /\ Len(allocLog) >= 1
    /\ bags0[Second].tnum = "T_POSOBJ"
    /\ IsImmutableObj(bags0, Second)
    /\ Second \in Refs(bags, newCopy)

(***************************************************************************)
(* C4.  From the moment it is allocated, a copy made by CopyObj( obj, 0 )  *)
(* is immutable, and so it is while its subobjects are copied and in the   *)
(* result; a copy made by CopyObj( obj, 1 ) is mutable.                    *)
(***************************************************************************)
C4_CopiesHaveWantedMutability ==
    \A k \in 1 .. Len(allocLog) :
        IS_MUTABLE_OBJ(bags, allocLog[k].copy) <=> (mutArg # 0)

\* a subobject is being copied into an immutable copy
C4_Witness ==
    /\ pc = "copy"
    /\ mutArg = 0
    /\ Len(stack) >= 2
    /\ ~ IS_MUTABLE_OBJ(bags, stack[1].copy)

(***************************************************************************)
(* C5.  An object that is mutable and not copyable is never copied: no bag *)
(* is allocated for it, it is never retagged and none of its words is      *)
(* written; the copy ends in ErrorQuit at that object and CopyObj returns  *)
(* nothing.                                                                *)
(***************************************************************************)
C5_NonCopyableFails ==
    /\ \A k \in 1 .. Len(allocLog) : IS_COPYABLE_OBJ(bags0, allocLog[k].src)
    /\ Len(bags) = Len(bags0) + 2 * Len(allocLog)
    /\ \A h \in Handles(bags0) :
          (IsMutableBag(bags0, h) /\ ~ IS_COPYABLE_OBJ(bags0, h)) =>
              bags[h] = bags0[h]
    /\ pc = "error" =>
          /\ IsMutableBag(bags0, errObj)
          /\ ~ IS_COPYABLE_OBJ(bags0, errObj)
          /\ newCopy = 0
    /\ pc = "done" =>
          \A o \in MutReachable(bags0, rootArg) : IS_COPYABLE_OBJ(bags0, o)

\* the copy has failed at a subobject, after the root was marked
C5_Witness ==
    /\ pc = "error"
    /\ errObj = Second
    /\ Len(allocLog) >= 1

(***************************************************************************)
(* Printing and viewing: what the claims speak of.                         *)
(***************************************************************************)
\* the call of PrintObj or ViewObj has returned or has ended in ErrorQuit
PrintFinished ==
    pstate = "error" \/ (pstack = << >> /\ pcall = NoPCall)

\* the objects of the calls that are open
OpenObjs == { pstack[k].obj : k \in 1 .. Len(pstack) }

\* the pending call is PrintObj called by the view body of the same object
FromView ==
    pcall.fn = "PrintObj" /\ LastPV = 2 /\ pcall.obj = PrintObjThis

\* the pending call is for an object one of the open calls is for
SelfReference ==
    /\ pstate = "run"
    /\ pcall # NoPCall
    /\ pcall.obj \in OpenObjs
    /\ ~ FromView
    /\ ~ Inaccessible(ds, pcall.obj)

\* what the calls have printed about their own object, in order
CallToks ==
    SelectSeq(out, LAMBDA e : e.t \in {"PrintObj", "ViewObj"}
                              /\ e.s # "user interrupt while printing")

(***************************************************************************)
(* C6, as claimed.  No object is dispatched to again while a call for it   *)
(* is open: a self-reference is printed as '~' whatever the object is.     *)
(***************************************************************************)
C6_NoObjectReentered ==
    \A i \in 1 .. Len(pstack) : \A j \in i + 1 .. Len(pstack) :
        pstack[i].obj = pstack[j].obj => pstack[j].fromview

(***************************************************************************)
(* C6, amended.  Printing terminates, and a call for a list or record that *)
(* an open call is for prints '~' and dispatches to no body; no list or    *)
(* record is in two open calls.                                            *)
(***************************************************************************)
C6_BackReferenceStep ==
    (SelfReference /\ IS_MARKABLE(bags, pcall.obj)) =>
        /\ Len(CallToks') = Len(CallToks) + 1
        /\ CallToks'[Len(CallToks')].o = pcall.obj
        /\ CallToks'[Len(CallToks')].s = "~"
        /\ pstack' = pstack \/ pstate' = "error"

C6_MarkableNotReentered ==
    \A i \in 1 .. Len(pstack) : \A j \in i + 1 .. Len(pstack) :
        (pstack[i].obj = pstack[j].obj /\ IS_MARKABLE(bags, pstack[i].obj))
            => pstack[j].fromview

C6_SelfReferencePrinted ==
    /\ [][C6_BackReferenceStep]_vars
    /\ []C6_MarkableNotReentered
    /\ <>PrintFinished

\* a list that contains itself has been printed to the end
C6_Witness ==
    /\ PrintFinished
    /\ pstate = "run"
    /\ IS_MARKABLE(bags, Root)
    /\ \E k \in 1 .. Len(out) : out[k].s = "~" /\ out[k].o = Root

(***************************************************************************)
(* C7, as claimed.  Every call that brings the depth to MAXPRINTDEPTH      *)
(* prints the notice; the depth never exceeds MAXPRINTDEPTH and the arrays *)
(* are used at the indices 0 .. MAXPRINTDEPTH-1 only.                      *)
(***************************************************************************)
C7_NoticeAtMaxDepth ==
    /\ \A k \in 1 .. Len(CallToks) :
          CallToks[k].x >= MAXPRINTDEPTH =>
              CallToks[k].s = "too many recursion levels!"
    /\ PrintObjDepth <= MAXPRINTDEPTH
    /\ touched \subseteq 0 .. MAXPRINTDEPTH - 1

(***************************************************************************)
(* C7, amended.  A call that brings the depth to MAXPRINTDEPTH dispatches  *)
(* to no body: it prints the notice, or '~' when its object is a list or   *)
(* record that an open call is for; the depth never exceeds MAXPRINTDEPTH  *)
(* and the arrays are used at the indices 0 .. MAXPRINTDEPTH-1 only.       *)
(***************************************************************************)
C7_NoBodyAtMaxDepth ==
    /\ \A k \in 1 .. Len(CallToks) :
          CallToks[k].x >= MAXPRINTDEPTH =>
              \/ CallToks[k].s = "too many recursion levels!"
              \/ CallToks[k].s = "~" /\ IS_MARKABLE(bags, CallToks[k].o)
    /\ Cardinality({ k \in 1 .. Len(pstack) : ~ pstack[k].fromview })
          < MAXPRINTDEPTH
    /\ PrintObjDepth <= MAXPRINTDEPTH
    /\ touched \subseteq 0 .. MAXPRINTDEPTH - 1

\* the notice has been printed and the call has returned
C7_Witness ==
    /\ PrintFinished
    /\ pstate = "run"
    /\ \E k \in 1 .. Len(out) :
          out[k].s = "too many recursion levels!" /\ out[k].x = MAXPRINTDEPTH
    /\ MAXPRINTDEPTH - 2 \in touched

(***************************************************************************)
(* C8.  A call of PrintObj or ViewObj for a bag in a region of another     *)
(* thread prints the placeholder with the object and the name of its       *)
(* region (the address of a region without a name), dispatches to no body  *)
(* and leaves depth, current object, index and LastPV as they were.        *)
(***************************************************************************)
C8_InaccessibleStep ==
    (/\ pstate = "run"
     /\ pcall # NoPCall
     /\ IS_BAG_REF(pcall.obj)
     /\ ds[pcall.obj] # 0
     /\ Regions[ds[pcall.obj]].owner # TLS) =>
        /\ out'[Len(out')] =
              [t |-> "inaccessible", o |-> pcall.obj, x |-> ds[pcall.obj],
               s |-> IF Regions[ds[pcall.obj]].name = ""
                       THEN "%p" ELSE Regions[ds[pcall.obj]].name]
        /\ CallToks' = CallToks
        /\ pcall' = NoPCall
        /\ UNCHANGED << PrintObjDepth, PrintObjThis, PrintObjIndex, LastPV,
                        PrintObjThiss, PrintObjIndices, pstack, pstate >>

C8_InaccessibleNotDispatched == [][C8_InaccessibleStep]_vars

\* a body has met an inaccessible sub-object and has gone on
C8_Witness ==
    /\ \E k \in 1 .. Len(out) : out[k].t = "inaccessible" /\ out[k].o = Second
    /\ out[Len(out)].t # "inaccessible"
    /\ PrintObjDepth >= 1

\* mutant: a bag without a region may be written
CannotWrite_PublicAllowed(region) ==
    region # 0 /\ Regions[region].owner # TLS

\* mutant: every region may be written
ForceCannotWrite_Never(region) == FALSE


(***************************************************************************)
(* SWITCH_OBJ and FORCE_SWITCH_OBJ.  PTR_BAG(obj) is the body bags[obj] of *)
(* the handle, DS_BAG(obj) its region ds[obj].                             *)
(***************************************************************************)
\* "!ds || ds->owner != TLS"
CannotWrite(region) == region = 0 \/ Regions[region].owner # TLS

\* "ds && ds->owner != TLS"
ForceCannotWrite(region) == region # 0 /\ Regions[region].owner # TLS

\* mutant: the region of a bag is tested before the other argument is looked at
SwitchVerdict_RegionsFirst(d, obj1, obj2) ==
    IF IS_BAG_REF(obj1) /\ CannotWrite(d[obj1]) THEN "first object's region"
    ELSE IF IS_BAG_REF(obj2) /\ CannotWrite(d[obj2]) THEN "second object's region"
    ELSE IF IS_INTOBJ(obj1) \/ IS_INTOBJ(obj2) THEN "small integer objects"
    ELSE IF IS_FFE(obj1) \/ IS_FFE(obj2) THEN "finite field elements"
    ELSE "switched"

SwitchVerdict(d, obj1, obj2) ==
    IF IS_INTOBJ(obj1) \/ IS_INTOBJ(obj2) THEN "small integer objects"
    ELSE IF IS_FFE(obj1) \/ IS_FFE(obj2) THEN "finite field elements"
    ELSE IF CannotWrite(d[obj1]) THEN "first object's region"
    ELSE IF CannotWrite(d[obj2]) THEN "second object's region"
    ELSE "switched"

ForceSwitchVerdict(d, obj1, obj2) ==
    IF IS_INTOBJ(obj1) \/ IS_INTOBJ(obj2) THEN "small integer objects"
    ELSE IF IS_FFE(obj1) \/ IS_FFE(obj2) THEN "finite field elements"
    ELSE IF ForceCannotWrite(d[obj1]) THEN "first object's region"
    ELSE IF ForceCannotWrite(d[obj2]) THEN "second object's region"
    ELSE "switched"

\* mutant: the regions are dropped, not exchanged
SwitchedDS_Public(d, obj1, obj2) == [d EXCEPT ![obj2] = 0, ![obj1] = 0]

\* DS_BAG(obj2) = ds1; DS_BAG(obj1) = ds2;
SwitchedDS(d, obj1, obj2) == [d EXCEPT ![obj2] = d[obj1], ![obj1] = d[obj2]]

\* mutant: only the second handle is assigned
SwitchedPTR_Overwrite(b, obj1, obj2) == [b EXCEPT ![obj2] = b[obj1]]

\* PTR_BAG(obj2) = ptr1; PTR_BAG(obj1) = ptr2;
SwitchedPTR(b, obj1, obj2) == [b EXCEPT ![obj2] = b[obj1], ![obj1] = b[obj2]]

\* the call and the heap it found are remembered, with the call before it
Logged(op, obj1, obj2, verdict) ==
    LET l == Append(swLog, [op |-> op, obj1 |-> obj1, obj2 |-> obj2,
                            verdict |-> verdict, bags |-> bags, ds |-> ds])
    IN  IF Len(l) > 2 THEN Tail(l) ELSE l

FFEVal == 0 - 2

\* the arguments of the calls; the third object is never an argument
SwitchArgs == {Root, Second, SmallInt, FFEVal}

FuncSWITCH_OBJ ==
    \E obj1 \in SwitchArgs, obj2 \in SwitchArgs :
        /\ swLog' = Logged("SWITCH_OBJ", obj1, obj2,
                           SwitchVerdict(ds, obj1, obj2))
        /\ IF SwitchVerdict(ds, obj1, obj2) = "switched"
             THEN /\ ds' = SwitchedDS(ds, obj1, obj2)
                  /\ bags' = SwitchedPTR(bags, obj1, obj2)
             ELSE UNCHANGED << bags, ds >>
        /\ UNCHANGED << stack, call, ret, pc, rootArg, mutArg, newCopy,
                        copiedObjs, bags0, allocLog, errObj, entryVars,
                        printVars, moreVars >>

FuncFORCE_SWITCH_OBJ ==
    \E obj1 \in SwitchArgs, obj2 \in SwitchArgs :
        /\ swLog' = Logged("FORCE_SWITCH_OBJ", obj1, obj2,
                           ForceSwitchVerdict(ds, obj1, obj2))
        /\ IF ForceSwitchVerdict(ds, obj1, obj2) = "switched"
             THEN /\ ds' = SwitchedDS(ds, obj1, obj2)
                  /\ bags' = SwitchedPTR(bags, obj1, obj2)
             ELSE UNCHANGED << bags, ds >>
        /\ UNCHANGED << stack, call, ret, pc, rootArg, mutArg, newCopy,
                        copiedObjs, bags0, allocLog, errObj, entryVars,
                        printVars, moreVars >>

\* three objects that differ, each in no region, in a region of the calling
\* thread or in a region of another thread
InitSwitch ==
    /\ bags = KindBags \o << MkObj("T_POSOBJ", 1, << SmallInt >>),
                            MkObj("T_COMOBJ", 1, << SmallInt >>),
                            DefaultObj >>
    /\ ds \in [1 .. Len(bags) -> 0 .. 2]
    /\ \A k \in Kinds : ds[k] = 0
    /\ swLog = << >>
    /\ EntryIdle
    /\ PrintIdle
    /\ MoreIdle
    /\ bags0 = bags
    /\ stack = << >>
    /\ call = NoCall
    /\ ret = 0
    /\ pc = "idle"
    /\ rootArg = 0
    /\ mutArg = 0
    /\ newCopy = 0
    /\ copiedObjs = 0
    /\ allocLog = << >>
    /\ errObj = 0

NextSwitch ==
    \/ FuncSWITCH_OBJ
    \/ FuncFORCE_SWITCH_OBJ

SpecSwitch == InitSwitch /\ [][NextSwitch]_vars

\* both arguments of the call are bags in regions of the calling thread
BothOwned(r) ==
    /\ IS_BAG_REF(r.obj1)
    /\ IS_BAG_REF(r.obj2)
    /\ r.ds[r.obj1] # 0
    /\ Regions[r.ds[r.obj1]].owner = TLS
    /\ r.ds[r.obj2] # 0
    /\ Regions[r.ds[r.obj2]].owner = TLS

ImmediateArg(r) ==
    IS_INTOBJ(r.obj1) \/ IS_FFE(r.obj1) \/ IS_INTOBJ(r.obj2) \/ IS_FFE(r.obj2)

(***************************************************************************)
(* C11.  SWITCH_OBJ and FORCE_SWITCH_OBJ with a small integer or a finite  *)
(* field element as an argument end in the error that can be returned      *)
(* from, whatever the region of the other argument, and leave the body and *)
(* the region of every handle as they were.                                *)
(***************************************************************************)
C11_ImmediatesNotSwitched ==
    (swLog # << >> /\ ImmediateArg(swLog[Len(swLog)])) =>
        /\ swLog[Len(swLog)].verdict =
              IF IS_INTOBJ(swLog[Len(swLog)].obj1)
                 \/ IS_INTOBJ(swLog[Len(swLog)].obj2)
                THEN "small integer objects"
                ELSE "finite field elements"
        /\ bags = swLog[Len(swLog)].bags
        /\ ds = swLog[Len(swLog)].ds

\* the other argument is a bag in a region of another thread
C11_Witness ==
    /\ swLog # << >>
    /\ swLog[Len(swLog)].op = "SWITCH_OBJ"
    /\ swLog[Len(swLog)].obj2 = FFEVal
    /\ IS_BAG_REF(swLog[Len(swLog)].obj1)
    /\ CannotWrite(ds[swLog[Len(swLog)].obj1])
    /\ swLog[Len(swLog)].verdict = "finite field elements"

\* both arguments of the call are bags
BothBags(r) == IS_BAG_REF(r.obj1) /\ IS_BAG_REF(r.obj2)

\* the region the bag was in is a region of the calling thread
Owned(r, obj) == r.ds[obj] # 0 /\ Regions[r.ds[obj]].owner = TLS

\* the region the bag was in is a region of another thread
OwnedByOther(r, obj) == r.ds[obj] # 0 /\ Regions[r.ds[obj]].owner # TLS

\* the call has exchanged bodies and regions of its arguments, only those
Exchanged(r) ==
    /\ bags[r.obj1] = r.bags[r.obj2]
    /\ ds[r.obj1] = r.ds[r.obj2]
    /\ bags[r.obj2] = r.bags[r.obj1]
    /\ ds[r.obj2] = r.ds[r.obj1]
    /\ DOMAIN bags = DOMAIN r.bags
    /\ \A h \in DOMAIN bags \ {r.obj1, r.obj2} :
          bags[h] = r.bags[h] /\ ds[h] = r.ds[h]

\* the call has ended in a region error and changed nothing
Refused(r) ==
    /\ r.verdict \in {"first object's region", "second object's region"}
    /\ bags = r.bags
    /\ ds = r.ds

(***************************************************************************)
(* C13 as stated.  SWITCH_OBJ on two bags exchanges them whenever at       *)
(* least one of the two regions is a region of the calling thread, and     *)
(* refuses only when neither is.                                           *)
(***************************************************************************)
C13_SwitchIfOneOwned ==
    (/\ swLog # << >>
     /\ swLog[Len(swLog)].op = "SWITCH_OBJ"
     /\ BothBags(swLog[Len(swLog)])) =>
        LET r == swLog[Len(swLog)]
        IN  (r.verdict = "switched") <=>
               (Owned(r, r.obj1) \/ Owned(r, r.obj2))

(***************************************************************************)
(* C13, amended.  SWITCH_OBJ on two bags exchanges them exactly when both  *)
(* regions are regions of the calling thread; when one of the bags has no  *)
(* region or a region of another thread, the call ends in the region error *)
(* of the first such argument and changes nothing.                         *)
(***************************************************************************)
C13_SwitchNeedsBothOwned ==
    (/\ swLog # << >>
     /\ swLog[Len(swLog)].op = "SWITCH_OBJ"
     /\ BothBags(swLog[Len(swLog)])) =>
        LET r == swLog[Len(swLog)]
        IN  IF Owned(r, r.obj1) /\ Owned(r, r.obj2)
              THEN r.verdict = "switched" /\ Exchanged(r)
              ELSE /\ Refused(r)
                   /\ r.verdict = IF Owned(r, r.obj1)
                                    THEN "second object's region"
                                    ELSE "first object's region"

\* the first bag is in a region of the calling thread, the second is not
C13_Witness ==
    /\ swLog # << >>
    /\ swLog[Len(swLog)].op = "SWITCH_OBJ"
    /\ BothBags(swLog[Len(swLog)])
    /\ Owned(swLog[Len(swLog)], swLog[Len(swLog)].obj1)
    /\ ~Owned(swLog[Len(swLog)], swLog[Len(swLog)].obj2)
    /\ swLog[Len(swLog)].verdict = "second object's region"
    /\ bags = swLog[Len(swLog)].bags

(***************************************************************************)
(* C14 as stated.  FORCE_SWITCH_OBJ on two bags exchanges them whatever    *)
(* the regions they are in.                                                *)
(***************************************************************************)
C14_ForceSwitchAlways ==
    (/\ swLog # << >>
     /\ swLog[Len(swLog)].op = "FORCE_SWITCH_OBJ"
     /\ BothBags(swLog[Len(swLog)])) =>
        swLog[Len(swLog)].verdict = "switched"

(***************************************************************************)
(* C14, amended.  FORCE_SWITCH_OBJ on two bags exchanges them when each    *)
(* is without a region or in a region of the calling thread; when one of   *)
(* them is in a region of another thread, the call ends in the region      *)
(* error of the first such argument and changes nothing.                   *)
(***************************************************************************)
C14_ForceSwitchUnlessOthers ==
    (/\ swLog # << >>
     /\ swLog[Len(swLog)].op = "FORCE_SWITCH_OBJ"
     /\ BothBags(swLog[Len(swLog)])) =>
        LET r == swLog[Len(swLog)]
        IN  IF ~OwnedByOther(r, r.obj1) /\ ~OwnedByOther(r, r.obj2)
              THEN r.verdict = "switched" /\ Exchanged(r)
              ELSE /\ Refused(r)
                   /\ r.verdict = IF OwnedByOther(r, r.obj1)
                                    THEN "first object's region"
                                    ELSE "second object's region"

\* a bag without a region and a bag of the calling thread have been exchanged
C14_Witness ==
    /\ swLog # << >>
    /\ swLog[Len(swLog)].op = "FORCE_SWITCH_OBJ"
    /\ BothBags(swLog[Len(swLog)])
    /\ swLog[Len(swLog)].ds[swLog[Len(swLog)].obj1] = 0
    /\ Owned(swLog[Len(swLog)], swLog[Len(swLog)].obj2)
    /\ swLog[Len(swLog)].verdict = "switched"
    /\ bags # swLog[Len(swLog)].bags
    /\ ds # swLog[Len(swLog)].ds

(***************************************************************************)
(* The handlers of the copies, MakeImmutable, the SET_TYPE_... handlers    *)
(* and CLONE_OBJ.  One call is made; <entry> keeps its arguments, how far  *)
(* it has come and the heap it found.  A handler that calls CopyObj hands  *)
(* over to the actions of CopyObj above.                                   *)
(***************************************************************************)
\* WriteGuard( obj ): passes unless the bag is in a region of another thread
WriteGuard(d, obj) ==
    \/ ~ IS_BAG_REF(obj)
    \/ d[obj] = 0
    \/ Regions[d[obj]].owner = TLS

Called(op, obj, arg, verdict) ==
    [op |-> op, obj |-> obj, arg |-> arg, verdict |-> verdict,
     bags |-> bags, ds |-> ds, calls |-> << >>]

\* no handler has been called yet
NotCalled == entry = NoEntry /\ pc = "none"

EntryArgs == {Root, Second, SmallInt}

\* WriteGuard(obj);  return CopyObj( obj, mut );
CopyObjHandler(op, mut) ==
    \E obj \in EntryArgs :
        /\ NotCalled
        /\ IF WriteGuard(ds, obj)
             THEN /\ entry' = Called(op, obj, 0, "copying")
                  /\ rootArg' = obj
                  /\ mutArg' = mut
                  /\ pc' = "idle"
             ELSE /\ entry' = Called(op, obj, 0, "region")
                  /\ UNCHANGED << rootArg, mutArg, pc >>
        /\ UNCHANGED << bags, stack, call, ret, newCopy, copiedObjs, bags0,
                        allocLog, errObj, ds, swLog, race, saved, printVars, moreVars >>

ImmutableCopyObjHandler == CopyObjHandler("IMMUTABLE_COPY_OBJ", 0)

MutableCopyObjHandler == CopyObjHandler("DEEP_COPY_OBJ", 1)

MakeImmutableObjFuncs ==
    [t \in RealTNUMs |->
        CASE t = "T_COMOBJ" -> "MakeImmutableComObj"
          [] t = "T_POSOBJ" -> "MakeImmutablePosObj"
          [] t = "T_DATOBJ" -> "MakeImmutableDatObj"
          [] OTHER          -> "MakeImmutableError"]

\* CALL_1ARGS( PostMakeImmutableOp, obj ): leaves the heap as it is
PostMakeImmutableOp(b, obj) == b

\* mutant: the loop over the subobjects is not commented out
MakeImmutablePosObj_Deep(b, obj) ==
    [h \in DOMAIN b |->
        IF h = obj \/ (h \in { b[obj].data[k] : k \in 2 .. Len(b[obj].data) }
                       /\ IS_MUTABLE_OBJ(b, h))
          THEN RESET_FILTER_OBJ(b, b[h])
          ELSE b[h]]

MakeImmutableComObj(b, obj) ==
    PostMakeImmutableOp([b EXCEPT ![obj] = RESET_FILTER_OBJ(b, b[obj])], obj)

MakeImmutablePosObj(b, obj) ==
    PostMakeImmutableOp([b EXCEPT ![obj] = RESET_FILTER_OBJ(b, b[obj])], obj)

MakeImmutableDatObj(b, obj) ==
    [b EXCEPT ![obj] = RESET_FILTER_OBJ(b, b[obj])]

\* the heap after MakeImmutable( obj )
MakeImmutable(b, obj) ==
    IF IS_MUTABLE_OBJ(b, obj)
      THEN CASE MakeImmutableObjFuncs[TNUM_OBJ(b, obj)] = "MakeImmutableComObj"
                  -> MakeImmutableComObj(b, obj)
             [] MakeImmutableObjFuncs[TNUM_OBJ(b, obj)] = "MakeImmutablePosObj"
                  -> MakeImmutablePosObj(b, obj)
             [] MakeImmutableObjFuncs[TNUM_OBJ(b, obj)] = "MakeImmutableDatObj"
                  -> MakeImmutableDatObj(b, obj)
      ELSE b

\* the handlers that end within one step leave everything but the heap
EntryFrame ==
    UNCHANGED << stack, call, ret, pc, rootArg, mutArg, newCopy, copiedObjs,
                 bags0, allocLog, errObj, ds, swLog, race, saved, printVars, moreVars >>

\* a call MakeImmutable makes, and whether <obj> is mutable when it is made
MadeCall(fn, b, obj) == [fn |-> fn, obj |-> obj, mutable |-> IS_MUTABLE_OBJ(b, obj)]

\* mutant: PostMakeImmutableOp is called before the filter is reset
MakeImmutableComObjCalls_HookFirst(b, obj) ==
    << MadeCall("PostMakeImmutableOp", b, obj),
       MadeCall("RESET_FILTER_OBJ", b, obj) >>

\* the calls of MakeImmutableComObj, MakeImmutablePosObj, MakeImmutableDatObj
MakeImmutableComObjCalls(b, obj) ==
    << MadeCall("RESET_FILTER_OBJ", b, obj),
       MadeCall("PostMakeImmutableOp",
                [b EXCEPT ![obj] = RESET_FILTER_OBJ(b, b[obj])], obj) >>

MakeImmutablePosObjCalls(b, obj) ==
    << MadeCall("RESET_FILTER_OBJ", b, obj),
       MadeCall("PostMakeImmutableOp",
                [b EXCEPT ![obj] = RESET_FILTER_OBJ(b, b[obj])], obj) >>

MakeImmutableDatObjCalls(b, obj) ==
    << MadeCall("RESET_FILTER_OBJ", b, obj) >>

\* the calls of MakeImmutable( obj ), the function it dispatches to first
MakeImmutableCalls(b, obj) ==
    IF IS_MUTABLE_OBJ(b, obj)
      THEN << MadeCall(MakeImmutableObjFuncs[TNUM_OBJ(b, obj)], b, obj) >> \o
           (CASE MakeImmutableObjFuncs[TNUM_OBJ(b, obj)] = "MakeImmutableComObj"
                   -> MakeImmutableComObjCalls(b, obj)
              [] MakeImmutableObjFuncs[TNUM_OBJ(b, obj)] = "MakeImmutablePosObj"
                   -> MakeImmutablePosObjCalls(b, obj)
              [] MakeImmutableObjFuncs[TNUM_OBJ(b, obj)] = "MakeImmutableDatObj"
                   -> MakeImmutableDatObjCalls(b, obj)
              [] OTHER -> << MadeCall("ErrorQuit", b, obj) >>)
      ELSE << >>

FuncMakeImmutable ==
    \E obj \in EntryArgs :
        /\ NotCalled
        /\ entry' = [Called("MakeImmutable", obj, 0, "returned")
                        EXCEPT !.calls = MakeImmutableCalls(bags, obj)]
        /\ bags' = MakeImmutable(bags, obj)
        /\ EntryFrame

\* MakeImmutable is called for the same object once more
FuncMakeImmutableAgain ==
    /\ entry # NoEntry
    /\ entry.op = "MakeImmutable"
    /\ entry.verdict = "returned"
    /\ entry' = [entry EXCEPT !.verdict = "returned twice",
                              !.arg = bags,
                              !.calls = @ \o << MadeCall("MakeImmutable", bags,
                                                         entry.obj) >>
                                          \o MakeImmutableCalls(bags, entry.obj)]
    /\ bags' = MakeImmutable(bags, entry.obj)
    /\ EntryFrame

\* TYPE_COMOBJ( obj ) = kind;  RetypeBag( obj, T_COMOBJ );
SET_TYPE_COMOBJ(b, obj, kind) ==
    IF TNUM_OBJ(b, obj) \in {"T_PREC", "T_COMOBJ"}
      THEN [b EXCEPT ![obj] = RetypeBag([@ EXCEPT !.data[1] = kind], "T_COMOBJ")]
      ELSE b

\* TYPE_POSOBJ( obj ) = kind;  RetypeBag( obj, T_POSOBJ );
SET_TYPE_POSOBJ(b, obj, kind) ==
    [b EXCEPT ![obj] = RetypeBag([@ EXCEPT !.data[1] = kind], "T_POSOBJ")]

\* TYPE_DATOBJ( obj ) = kind;  RetypeBag( obj, T_DATOBJ );
SET_TYPE_DATOBJ(b, obj, kind) ==
    [b EXCEPT ![obj] = RetypeBag([@ EXCEPT !.data[1] = kind], "T_DATOBJ")]

\* the objects and kinds the SET_TYPE_... handlers are called with
SetTypeArgs == {Root, Second}

SET_TYPE_COMOBJ_Handler ==
    \E obj \in SetTypeArgs, kind \in Kinds :
        /\ NotCalled
        /\ entry' = Called("SET_TYPE_COMOBJ", obj, kind, "returned")
        /\ bags' = SET_TYPE_COMOBJ(bags, obj, kind)
        /\ EntryFrame

SET_TYPE_POSOBJ_Handler ==
    \E obj \in SetTypeArgs, kind \in Kinds :
        /\ NotCalled
        /\ entry' = Called("SET_TYPE_POSOBJ", obj, kind, "returned")
        /\ bags' = SET_TYPE_POSOBJ(bags, obj, kind)
        /\ EntryFrame

SET_TYPE_DATOBJ_Handler ==
    \E obj \in SetTypeArgs, kind \in Kinds :
        /\ NotCalled
        /\ entry' = Called("SET_TYPE_DATOBJ", obj, kind, "returned")
        /\ bags' = SET_TYPE_DATOBJ(bags, obj, kind)
        /\ EntryFrame

\* mutant: a word of <src> that refers to <src> is made to refer to <dst>
CloneInto_Relinked(b, dst, src) ==
    [b EXCEPT ![dst] =
        [b[src] EXCEPT !.data = [k \in DOMAIN b[src].data |->
                                    IF k > 1 /\ b[src].data[k] = src
                                      THEN dst ELSE b[src].data[k]]]]

\* mutant: the tag of <dst> is left as it was
CloneInto_NoRetype(b, dst, src) == [b EXCEPT ![dst].data = b[src].data]

\* ResizeBag( dst, SIZE_OBJ(src) );  RetypeBag( dst, TNUM_OBJ(src) );
\* *pdst++ = *psrc++, for every word
CloneInto(b, dst, src) == [b EXCEPT ![dst] = b[src]]

\* "now shallow clone the object".  <dst> is not tested: with an immediate
\* <dst> the calls of ResizeBag and RetypeBag and the writes go through a
\* reference that is no handle, and the call crashes, or returns having
\* written outside the bags, or returns having overwritten some bag.
ShallowClone(e, dst, src) ==
    IF IS_BAG_REF(dst)
      THEN /\ bags' = CloneInto(bags, dst, src)
           /\ entry' = [e EXCEPT !.verdict = "returned"]
      ELSE \/ /\ bags' = bags
              /\ entry' = [e EXCEPT !.verdict = "crashed"]
           \/ /\ bags' = bags
              /\ entry' = [e EXCEPT !.verdict = "returned"]
           \/ \E h \in DOMAIN bags :
                 /\ bags' = CloneInto(bags, h, src)
                 /\ entry' = [e EXCEPT !.verdict = "returned"]

CloneArgs == {Root, Second, SmallInt, FFEVal}

\* FuncCLONE_OBJ up to the call of CopyObj, or to its end when <src> is not
\* mutable
FuncCLONE_OBJ ==
    \E dst \in CloneArgs, src \in CloneArgs :
        /\ NotCalled
        /\ IF IS_INTOBJ(src)
             THEN /\ entry' = Called("CLONE_OBJ", dst, src,
                                     "small integers cannot be cloned")
                  /\ UNCHANGED << bags, rootArg, mutArg, pc >>
             ELSE IF IS_FFE(src)
                    THEN /\ entry' = Called("CLONE_OBJ", dst, src,
                                            "finite field elements cannot be cloned")
                         /\ UNCHANGED << bags, rootArg, mutArg, pc >>
                    ELSE IF IS_MUTABLE_OBJ(bags, src)
                           THEN /\ entry' = Called("CLONE_OBJ", dst, src, "copying")
                                /\ rootArg' = src
                                /\ mutArg' = 1
                                /\ pc' = "idle"
                                /\ UNCHANGED bags
                           ELSE /\ ShallowClone(Called("CLONE_OBJ", dst, src,
                                                       "copying"), dst, src)
                                /\ UNCHANGED << rootArg, mutArg, pc >>
        /\ UNCHANGED << stack, call, ret, newCopy, copiedObjs, bags0, allocLog,
                        errObj, ds, swLog, race, saved, printVars, moreVars >>

\* FuncCLONE_OBJ after CopyObj has returned the structural copy
FuncCLONE_OBJ_Clone ==
    /\ entry # NoEntry
    /\ entry.op = "CLONE_OBJ"
    /\ entry.verdict = "copying"
    /\ pc = "done"
    /\ ShallowClone(entry, entry.obj, newCopy)
    /\ EntryFrame

\* the heap the handlers are called in: the first object refers to itself,
\* to the others or to no object, the second refers to the third
EntrySlotVals == {SmallInt, Root, Second, Third}

EntryObjs(n) ==
    { MkObj(t, k, ch) : t \in ExternalTNUMs, k \in SrcKinds,
                        ch \in [1 .. n -> EntrySlotVals] }

EntryRegions == { << 1, 1 >>, << 2, 1 >>, << 0, 1 >>, << 1, 2 >> }

InitEntry ==
    /\ \E r \in EntryObjs(NumSlots), k \in {1, 2} :
          bags = KindBags \o << r, MkObj("T_POSOBJ", k, << Third >>), DefaultObj >>
    /\ \E rg \in EntryRegions :
          ds = [h \in 1 .. Len(bags) |->
                  IF h = Root THEN rg[1] ELSE IF h = Second THEN rg[2] ELSE 1]
    /\ entry = NoEntry
    /\ race = NoRace
    /\ saved = NoSaved
    /\ swLog = << >>
    /\ PrintIdle
    /\ MoreIdle
    /\ bags0 = bags
    /\ stack = << >>
    /\ call = NoCall
    /\ ret = 0
    /\ pc = "none"
    /\ rootArg = 0
    /\ mutArg = 0
    /\ newCopy = 0
    /\ copiedObjs = 0
    /\ allocLog = << >>
    /\ errObj = 0

NextEntry ==
    \/ ImmutableCopyObjHandler
    \/ MutableCopyObjHandler
    \/ FuncMakeImmutable
    \/ FuncMakeImmutableAgain
    \/ SET_TYPE_COMOBJ_Handler
    \/ SET_TYPE_POSOBJ_Handler
    \/ SET_TYPE_DATOBJ_Handler
    \/ FuncCLONE_OBJ
    \/ FuncCLONE_OBJ_Clone
    \/ NextCopy

SpecEntry == InitEntry /\ [][NextEntry]_vars

\* a call of CLONE_OBJ has come to its end
CloneEnded == entry # NoEntry /\ entry.op = "CLONE_OBJ" /\ entry.verdict # "copying"

(***************************************************************************)
(* C12 as stated.  CLONE_OBJ(dst, src) with a small integer or a finite    *)
(* field element as dst or as src ends in the error that can be returned   *)
(* from and leaves every bag and every region as it was.                   *)
(***************************************************************************)
C12_CloneImmediateRefused ==
    (CloneEnded /\ (~ IS_BAG_REF(entry.obj) \/ ~ IS_BAG_REF(entry.arg))) =>
        /\ entry.verdict \in {"small integers cannot be cloned",
                              "finite field elements cannot be cloned"}
        /\ bags = entry.bags
        /\ ds = entry.ds

\* the target of the call was in a region of another thread
ForeignTarget ==
    /\ entry # NoEntry
    /\ entry.verdict # "copying"
    /\ IS_BAG_REF(entry.obj)
    /\ OwnedByOther(entry, entry.obj)

(***************************************************************************)
(* C16 as stated.  A call of IMMUTABLE_COPY_OBJ, DEEP_COPY_OBJ, CLONE_OBJ  *)
(* (for its destination), SWITCH_OBJ, FORCE_SWITCH_OBJ, MakeImmutable or   *)
(* SET_TYPE_COMOBJ/POSOBJ/DATOBJ on a bag in a region of another thread    *)
(* ends in the region error and leaves the bag and its region as they      *)
(* were.                                                                   *)
(***************************************************************************)
C16_ForeignRegionRefused ==
    /\ ForeignTarget =>
          /\ entry.verdict = "region"
          /\ bags[entry.obj] = entry.bags[entry.obj]
          /\ ds[entry.obj] = entry.ds[entry.obj]
    /\ (/\ swLog # << >>
        /\ BothBags(swLog[Len(swLog)])
        /\ \/ OwnedByOther(swLog[Len(swLog)], swLog[Len(swLog)].obj1)
           \/ OwnedByOther(swLog[Len(swLog)], swLog[Len(swLog)].obj2)) =>
          Refused(swLog[Len(swLog)])

\* CLONE_OBJ( dst, src ) has returned, for two different bags
ClonedBags ==
    /\ CloneEnded
    /\ entry.verdict = "returned"
    /\ IS_BAG_REF(entry.obj)
    /\ IS_BAG_REF(entry.arg)
    /\ entry.obj # entry.arg

MadeImmutable ==
    /\ entry # NoEntry
    /\ entry.op = "MakeImmutable"
    /\ IS_BAG_REF(entry.obj)
    /\ IS_MUTABLE_OBJ(entry.bags, entry.obj)

Observer == "other"

\* the bag is without a region or in a region of <thread>
MayRead(thread, d, obj) ==
    IF d[obj] = 0 THEN TRUE ELSE Regions[d[obj]].owner = thread

NotSeen == [by |-> "none"]

RaceArgs == {Root, Second}

\* the function up to its first assignment: the tests, the four reads
SwitchTests(op, d, obj1, obj2) ==
    IF op = "SWITCH_OBJ" THEN SwitchVerdict(d, obj1, obj2)
                         ELSE ForceSwitchVerdict(d, obj1, obj2)

SwitchEnter(op) ==
    \E obj1 \in RaceArgs, obj2 \in RaceArgs :
        /\ race = NoRace
        /\ race' = [op |-> op, obj1 |-> obj1, obj2 |-> obj2,
                    ptr1 |-> bags[obj1], ptr2 |-> bags[obj2],
                    ds1 |-> ds[obj1], ds2 |-> ds[obj2],
                    at |-> IF SwitchTests(op, ds, obj1, obj2) = "switched"
                             THEN "DS_BAG(obj2) = ds1"
                             ELSE SwitchTests(op, ds, obj1, obj2),
                    bags |-> bags, ds |-> ds, seen |-> NotSeen]
        /\ UNCHANGED << copyVars, ds, swLog, entry, saved, printVars, moreVars >>

SwitchObjEnter == SwitchEnter("SWITCH_OBJ")

ForceSwitchObjEnter == SwitchEnter("FORCE_SWITCH_OBJ")

RaceAt(statement) == race # NoRace /\ race.at = statement

RaceFrame ==
    UNCHANGED << stack, call, ret, pc, rootArg, mutArg, newCopy, copiedObjs,
                 bags0, allocLog, errObj, swLog, entry, saved, printVars, moreVars >>

\* DS_BAG(obj2) = ds1;
SwitchStoreDS2 ==
    /\ RaceAt("DS_BAG(obj2) = ds1")
    /\ ds' = [ds EXCEPT ![race.obj2] = race.ds1]
    /\ race' = [race EXCEPT !.at = "PTR_BAG(obj2) = ptr1"]
    /\ UNCHANGED bags
    /\ RaceFrame

\* PTR_BAG(obj2) = ptr1;
SwitchStorePTR2 ==
    /\ RaceAt("PTR_BAG(obj2) = ptr1")
    /\ bags' = [bags EXCEPT ![race.obj2] = race.ptr1]
    /\ race' = [race EXCEPT !.at = "DS_BAG(obj1) = ds2"]
    /\ UNCHANGED ds
    /\ RaceFrame

\* DS_BAG(obj1) = ds2;
SwitchStoreDS1 ==
    /\ RaceAt("DS_BAG(obj1) = ds2")
    /\ ds' = [ds EXCEPT ![race.obj1] = race.ds2]
    /\ race' = [race EXCEPT !.at = "PTR_BAG(obj1) = ptr2"]
    /\ UNCHANGED bags
    /\ RaceFrame

\* PTR_BAG(obj1) = ptr2;  CHANGED_BAG(obj1);  CHANGED_BAG(obj2);  return 0;
SwitchStorePTR1 ==
    /\ RaceAt("PTR_BAG(obj1) = ptr2")
    /\ bags' = [bags EXCEPT ![race.obj1] = race.ptr2]
    /\ race' = [race EXCEPT !.at = "returned"]
    /\ UNCHANGED ds
    /\ RaceFrame

\* the second thread reads both handles, if it may read both
ObserverReads ==
    /\ race # NoRace
    /\ MayRead(Observer, ds, race.obj1)
    /\ MayRead(Observer, ds, race.obj2)
    /\ race' = [race EXCEPT !.seen = [by |-> Observer, at |-> race.at,
                                      ptr1 |-> bags[race.obj1],
                                      ptr2 |-> bags[race.obj2],
                                      ds1 |-> ds[race.obj1],
                                      ds2 |-> ds[race.obj2]]]
    /\ UNCHANGED << bags, ds >>
    /\ RaceFrame

NextSwitchRace ==
    \/ SwitchObjEnter
    \/ ForceSwitchObjEnter
    \/ SwitchStoreDS2
    \/ SwitchStorePTR2
    \/ SwitchStoreDS1
    \/ SwitchStorePTR1
    \/ ObserverReads

SpecSwitchRace == InitSwitch /\ [][NextSwitchRace]_vars

(***************************************************************************)
(* C15 as stated.  What another thread reads of the two handles of a call  *)
(* of SWITCH_OBJ or FORCE_SWITCH_OBJ is what they held before the call or  *)
(* what they hold after it: never one handle exchanged and the other not.  *)
(***************************************************************************)
C15_NoPartialExchange ==
    (race # NoRace /\ race.seen # NotSeen) =>
        \/ /\ race.seen.ptr1 = race.ptr1
           /\ race.seen.ds1 = race.ds1
           /\ race.seen.ptr2 = race.ptr2
           /\ race.seen.ds2 = race.ds2
        \/ /\ race.seen.ptr1 = race.ptr2
           /\ race.seen.ds1 = race.ds2
           /\ race.seen.ptr2 = race.ptr1
           /\ race.seen.ds2 = race.ds1

(***************************************************************************)
(* Saving and loading.  The framer saves the bags of the workspace one     *)
(* after the other: it writes tag and size and calls the saving function   *)
(* of the tag; loading, it reads tag and size, makes the bag and calls the *)
(* loading function.  <saved> keeps the order of the bags, the items       *)
(* written, where the items of each bag start, the bags loaded, the place  *)
(* the reader is at, where the reading for each bag started and the kinds  *)
(* of items asked for.  A reference to a bag is written as the position of *)
(* the bag in the file, and the loaded bags get their positions as         *)
(* handles.                                                                *)
(***************************************************************************)
\* the position in the file of bag <h>, and the bag at position <h>
FilePos(order, n, h) == IF order = "up" THEN h ELSE n + 1 - h

\* SaveSubObj( subobj ), SaveUInt( data ): the item written
SaveSubObj(order, n, subobj) ==
    [kind |-> "subobj",
     val  |-> IF IS_BAG_REF(subobj) THEN FilePos(order, n, subobj) ELSE subobj]

SaveUInt(data) == [kind |-> "uint", val |-> data]

\* LoadSubObj(), LoadUInt(): the value of the item read
LoadSubObj(item) == item.val

LoadUInt(item) == item.val

SaveObjFuncs ==
    [t \in RealTNUMs |->
        CASE t = "T_COMOBJ" -> "SaveComObj"
          [] t = "T_POSOBJ" -> "SavePosObj"
          [] t = "T_DATOBJ" -> "SaveDatObj"
          [] OTHER          -> "SaveObjError"]

LoadObjFuncs ==
    [t \in RealTNUMs |->
        CASE t = "T_COMOBJ" -> "LoadComObj"
          [] t = "T_POSOBJ" -> "LoadPosObj"
          [] t = "T_DATOBJ" -> "LoadDatObj"
          [] OTHER          -> "LoadObjError"]

\* SaveSubObj(TYPE_COMOBJ( comobj ));  SaveUInt(len);  then for each i
\* SaveUInt(GET_RNAM_PREC(comobj, i));  SaveSubObj(GET_ELM_PREC(comobj, i));
SaveComObjItems(order, b, comobj) ==
    [k \in 1 .. 2 + 2 * LEN_PREC(b, comobj) |->
        IF k = 1 THEN SaveSubObj(order, Len(b), ADDR_OBJ(b, comobj, 0))
        ELSE IF k = 2 THEN SaveUInt(LEN_PREC(b, comobj))
        ELSE IF k % 2 = 1
               THEN SaveUInt(GET_RNAM_PREC(b, comobj, (k - 1) \div 2))
               ELSE SaveSubObj(order, Len(b), GET_ELM_PREC(b, comobj, (k - 2) \div 2))]

\* SaveSubObj(TYPE_POSOBJ( posobj ));  len = SIZE_OBJ(posobj)/sizeof(Obj) - 1;
\* then for each i  SaveSubObj(ADDR_OBJ(posobj)[i]);
SavePosObjItems(order, b, posobj) ==
    << SaveSubObj(order, Len(b), ADDR_OBJ(b, posobj, 0)) >> \o
    [i \in 1 .. SIZE_WORDS(b, posobj) - 1 |->
        SaveSubObj(order, Len(b), ADDR_OBJ(b, posobj, i))]

\* SaveSubObj(TYPE_DATOBJ( datobj ));
\* len = (SIZE_OBJ(datobj)+sizeof(UInt)-1)/sizeof(UInt) - 1: the words of the
\* bag but the first;  then for each i  SaveUInt(*ptr++);
SaveDatObjItems(order, b, datobj) ==
    << SaveSubObj(order, Len(b), ADDR_OBJ(b, datobj, 0)) >> \o
    [i \in 1 .. SIZE_WORDS(b, datobj) - 1 |-> SaveUInt(ADDR_OBJ(b, datobj, i))]

\* mutant: the value of a component is read before its name
LoadComObjBag_ElmFirst(bag, items, at) ==
    [bag EXCEPT !.data =
        [k \in 1 .. Len(bag.data) |->
            IF k = 1 THEN LoadSubObj(items[at])
            ELSE IF k = 2 THEN LoadUInt(items[at + 1])
            ELSE IF k <= 2 + 2 * LoadUInt(items[at + 1])
                   THEN IF k % 2 = 1 THEN LoadUInt(items[at + k])
                                     ELSE LoadSubObj(items[at + k - 2])
                   ELSE bag.data[k]]]

\* TYPE_COMOBJ( comobj ) = LoadSubObj();  len = LoadUInt();
\* SET_LEN_PREC(comobj,len);  then for each i
\* SET_RNAM_PREC(comobj, i, LoadUInt());  SET_ELM_PREC(comobj, i, LoadSubObj());
LoadComObjBag(bag, items, at) ==
    [bag EXCEPT !.data =
        [k \in 1 .. Len(bag.data) |->
            IF k = 1 THEN LoadSubObj(items[at])
            ELSE IF k = 2 THEN LoadUInt(items[at + 1])
            ELSE IF k <= 2 + 2 * LoadUInt(items[at + 1])
                   THEN IF k % 2 = 1 THEN LoadUInt(items[at + k - 1])
                                     ELSE LoadSubObj(items[at + k - 1])
                   ELSE bag.data[k]]]

\* the kinds of items LoadComObj asks for
LoadComObjAsks(bag, items, at) ==
    [k \in 1 .. 2 + 2 * LoadUInt(items[at + 1]) |->
        IF k = 1 THEN "subobj"
        ELSE IF k = 2 THEN "uint"
        ELSE IF k % 2 = 1 THEN "uint" ELSE "subobj"]

\* TYPE_POSOBJ( posobj ) = LoadSubObj();  then for each i
\* ADDR_OBJ(posobj)[i] = LoadSubObj();
LoadPosObjBag(bag, items, at) ==
    [bag EXCEPT !.data =
        [k \in 1 .. Len(bag.data) |-> LoadSubObj(items[at + k - 1])]]

LoadPosObjAsks(bag, items, at) == [k \in 1 .. Len(bag.data) |-> "subobj"]

\* mutant: the loaded bag gets a word more
LoadDatObjBag_Resizes(bag, items, at) ==
    [bag EXCEPT !.data =
        [k \in 1 .. Len(bag.data) + 1 |->
            IF k = 1 THEN LoadSubObj(items[at])
            ELSE IF k <= Len(bag.data) THEN LoadUInt(items[at + k - 1])
            ELSE 0]]

\* TYPE_DATOBJ( datobj ) = LoadSubObj();  then for each i  *ptr++ = LoadUInt();
LoadDatObjBag(bag, items, at) ==
    [bag EXCEPT !.data =
        [k \in 1 .. Len(bag.data) |->
            IF k = 1 THEN LoadSubObj(items[at])
                     ELSE LoadUInt(items[at + k - 1])]]

LoadDatObjAsks(bag, items, at) ==
    [k \in 1 .. Len(bag.data) |-> IF k = 1 THEN "subobj" ELSE "uint"]

\* the bag the framer has come to, saving and loading
SaveNext == FilePos(saved.order, Len(bags), Len(saved.starts) + 1)

LoadNext == FilePos(saved.order, Len(bags), Len(saved.dest) + 1)

SaveFrame == UNCHANGED << copyVars, ds, swLog, entry, race, printVars, moreVars >>

\* the framer calls (*SaveObjFuncs[ TNUM_OBJ(obj) ])( obj ) for the next bag
SaveObj(func, items) ==
    /\ saved # NoSaved
    /\ Len(saved.starts) < Len(bags)
    /\ SaveObjFuncs[TNUM_OBJ(bags, SaveNext)] = func
    /\ saved' = [saved EXCEPT !.items = @ \o items,
                              !.starts = Append(@, Len(saved.items) + 1)]
    /\ SaveFrame

SaveComObj == SaveObj("SaveComObj", SaveComObjItems(saved.order, bags, SaveNext))

SavePosObj == SaveObj("SavePosObj", SavePosObjItems(saved.order, bags, SaveNext))

SaveDatObj == SaveObj("SaveDatObj", SaveDatObjItems(saved.order, bags, SaveNext))

\* the bag the framer makes from the tag and the size it has read
LoadedHeader ==
    NewBag(TNUM_OBJ(bags, LoadNext), SIZE_WORDS(bags, LoadNext))

\* the framer calls (*LoadObjFuncs[ TNUM_OBJ(bag) ])( bag ) for the next bag
LoadObj(func, bag, asks) ==
    /\ saved # NoSaved
    /\ Len(saved.starts) = Len(bags)
    /\ Len(saved.dest) < Len(bags)
    /\ LoadObjFuncs[TNUM_OBJ(bags, LoadNext)] = func
    /\ saved' = [saved EXCEPT !.dest = Append(@, bag),
                              !.at = @ + Len(asks),
                              !.lstarts = Append(@, saved.at),
                              !.asks = @ \o asks]
    /\ SaveFrame

LoadComObj ==
    LoadObj("LoadComObj", LoadComObjBag(LoadedHeader, saved.items, saved.at),
            LoadComObjAsks(LoadedHeader, saved.items, saved.at))

LoadPosObj ==
    LoadObj("LoadPosObj", LoadPosObjBag(LoadedHeader, saved.items, saved.at),
            LoadPosObjAsks(LoadedHeader, saved.items, saved.at))

LoadDatObj ==
    LoadObj("LoadDatObj", LoadDatObjBag(LoadedHeader, saved.items, saved.at),
            LoadDatObjAsks(LoadedHeader, saved.items, saved.at))

SaveOrders == {"up", "down"}

InitSave ==
    /\ \E r \in EntryObjs(NumSlots), t \in {"T_POSOBJ", "T_COMOBJ"} :
          bags = KindBags \o << r, MkObj(t, 1, << Third >>), DefaultObj >>
    /\ \E order \in SaveOrders :
          saved = [op |-> "save", order |-> order, items |-> << >>,
                   starts |-> << >>, dest |-> << >>, at |-> 1,
                   lstarts |-> << >>, asks |-> << >>]
    /\ ds = [h \in 1 .. Len(bags) |-> 1]
    /\ entry = NoEntry
    /\ race = NoRace
    /\ swLog = << >>
    /\ PrintIdle
    /\ MoreIdle
    /\ bags0 = bags
    /\ stack = << >>
    /\ call = NoCall
    /\ ret = 0
    /\ pc = "none"
    /\ rootArg = 0
    /\ mutArg = 0
    /\ newCopy = 0
    /\ copiedObjs = 0
    /\ allocLog = << >>
    /\ errObj = 0

NextSave ==
    \/ SaveComObj
    \/ SavePosObj
    \/ SaveDatObj
    \/ LoadComObj
    \/ LoadPosObj
    \/ LoadDatObj

SpecSave == InitSave /\ [][NextSave]_vars

\* the loaded value of a reference: a bag by its position in the file
Relinked(o) ==
    IF IS_BAG_REF(o) THEN FilePos(saved.order, Len(bags), o) ELSE o

\* the words of a bag that are references: the kind and the subobjects
RefWords(b, o) == {1} \cup RefSlots(b, o)

\* the bag loaded at position <i> equals the bag saved there: tag, size,
\* references relinked, other words as they were
LoadedEqual(i) ==
    LET x == FilePos(saved.order, Len(bags), i)
    IN  /\ saved.dest[i].tnum = bags[x].tnum
        /\ Len(saved.dest[i].data) = Len(bags[x].data)
        /\ \A k \in 1 .. Len(bags[x].data) :
              saved.dest[i].data[k] =
                 IF k \in RefWords(bags, x) THEN Relinked(bags[x].data[k])
                                            ELSE bags[x].data[k]

(***************************************************************************)
(* C18.  For every bag loaded from what the saving functions wrote: the    *)
(* loading function started at the first item the saving function of the   *)
(* bag wrote and ended at the first item of the next bag, it asked for     *)
(* each item by the kind it was written with, and the loaded bag has the   *)
(* tag, the size, the kind, the names and the words of the saved one, with *)
(* every reference leading to the loaded bag of the object referred to,    *)
(* so that bags that were shared are shared again.                         *)
(***************************************************************************)
C18_LoadMirrorsSave ==
    saved # NoSaved =>
        /\ \A i \in 1 .. Len(saved.dest) :
              /\ saved.lstarts[i] = saved.starts[i]
              /\ LoadedEqual(i)
        /\ Len(saved.dest) > 0 =>
              saved.at = IF Len(saved.dest) < Len(bags)
                           THEN saved.starts[Len(saved.dest) + 1]
                           ELSE Len(saved.items) + 1
        /\ Len(saved.asks) = saved.at - 1
        /\ \A k \in 1 .. Len(saved.asks) : saved.asks[k] = saved.items[k].kind

\* everything is loaded; an object with two references to one bag that is
\* not at the position of its handle has been loaded, and a component object
C18_Witness ==
    /\ saved # NoSaved
    /\ saved.order = "down"
    /\ Len(saved.dest) = Len(bags)
    /\ \E h \in Handles(bags) :
          /\ bags[h].tnum = "T_POSOBJ"
          /\ Len(bags[h].data) > 2
          /\ bags[h].data[2] = bags[h].data[3]
          /\ IS_BAG_REF(bags[h].data[2])
          /\ saved.dest[FilePos("down", Len(bags), h)].data[2] # bags[h].data[2]
    /\ \E h \in Handles(bags) : bags[h].tnum = "T_COMOBJ"

(***************************************************************************)
(* C19.  Saving and loading allocate no bag and change neither the size    *)
(* nor the tag of a bag: the saved bags are as they were, every item       *)
(* written is a reference to a subobject or an integer, there is one       *)
(* loaded bag for each call of a loading function, and it has the tag and  *)
(* the size the framer gave it.                                            *)
(***************************************************************************)
C19_NoAllocationInSaveLoad ==
    saved # NoSaved =>
        /\ bags = bags0
        /\ \A k \in 1 .. Len(saved.items) :
              saved.items[k].kind \in {"subobj", "uint"}
        /\ Len(saved.dest) = Len(saved.lstarts)
        /\ \A i \in 1 .. Len(saved.dest) :
              LET x == FilePos(saved.order, Len(bags), i)
              IN  /\ saved.dest[i].tnum = TNUM_OBJ(bags0, x)
                  /\ Len(saved.dest[i].data) = SIZE_WORDS(bags0, x)

\* a data object has been loaded after a component object was saved
C19_Witness ==
    /\ saved # NoSaved
    /\ \E i \in 1 .. Len(saved.dest) : saved.dest[i].tnum = "T_DATOBJ"
    /\ \E h \in Handles(bags) : bags[h].tnum = "T_COMOBJ"
    /\ Len(saved.items) > Len(bags)

(***************************************************************************)
(* InitKernel.  The dispatch tables are global arrays, empty ("NULL")      *)
(* before InitKernel; InitKernel is a sequence of assignments to their     *)
(* entries, taken here one assignment at a step.  After it an entry is     *)
(* called for some tag.                                                    *)
(***************************************************************************)
\* the tags in their order, FIRST_REAL_TNUM first
TNUMs ==
    << "T_INT", "T_FFE", "T_PREC", "T_PLIST", "T_COMOBJ", "T_POSOBJ", "T_DATOBJ" >>

\* for ( t = first; t <= last; t++ ) over the tags of <S>
TNUMRange(S) == SelectSeq(TNUMs, LAMBDA t : t \in S)

\* table[ tag ] = body;
Install(table, tag, body) == << [table |-> table, tag |-> tag, body |-> body] >>

\* for ( t = ...; t <= ...; t++ )  table[ t ] = body;
InstallRange(S, table, body) ==
    [k \in 1 .. Len(TNUMRange(S)) |->
        [table |-> table, tag |-> TNUMRange(S)[k], body |-> body]]

\* for ( t = ...; t <= ...; t++ ) { table1[ t ] = body1;  table2[ t ] = body2; }
InstallRange2(S, table1, body1, table2, body2) ==
    [k \in 1 .. 2 * Len(TNUMRange(S)) |->
        IF k % 2 = 1
          THEN [table |-> table1, tag |-> TNUMRange(S)[(k + 1) \div 2], body |-> body1]
          ELSE [table |-> table2, tag |-> TNUMRange(S)[k \div 2], body |-> body2]]

\* the assignments of InitKernel to the tables, in their order, up to the
\* table of the functions that make immutable
InitKernelTables ==
    InstallRange2(RealTNUMs, "TypeObjFuncs", "TypeObjError",
                  "SetTypeObjFuncs", "SetTypeObjError")
    \o Install("TypeObjFuncs", "T_COMOBJ", "TypeComObj")
    \o Install("TypeObjFuncs", "T_POSOBJ", "TypePosObj")
    \o Install("TypeObjFuncs", "T_DATOBJ", "TypeDatObj")
    \o Install("SetTypeObjFuncs", "T_COMOBJ", "SetTypeComObj")
    \o Install("SetTypeObjFuncs", "T_POSOBJ", "SetTypePosObj")
    \o Install("SetTypeObjFuncs", "T_DATOBJ", "SetTypeDatObj")
    \o InstallRange(RealTNUMs, "IsMutableObjFuncs", "IsMutableObjError")
    \o InstallRange(ConstantTNUMs, "IsMutableObjFuncs", "IsMutableObjNot")
    \o InstallRange(ExternalTNUMs, "IsMutableObjFuncs", "IsMutableObjObject")
    \o InstallRange(RealTNUMs, "IsCopyableObjFuncs", "IsCopyableObjError")
    \o InstallRange(ConstantTNUMs, "IsCopyableObjFuncs", "IsCopyableObjNot")
    \o InstallRange(ExternalTNUMs, "IsCopyableObjFuncs", "IsCopyableObjObject")
    \o InstallRange(RealTNUMs, "ShallowCopyObjFuncs", "ShallowCopyObjError")
    \o InstallRange(ConstantTNUMs, "ShallowCopyObjFuncs", "ShallowCopyObjConstant")
    \o InstallRange(RecordTNUMs, "ShallowCopyObjFuncs", "ShallowCopyObjDefault")
    \o InstallRange(ListTNUMs, "ShallowCopyObjFuncs", "ShallowCopyObjDefault")
    \o InstallRange(ExternalTNUMs, "ShallowCopyObjFuncs", "ShallowCopyObjObject")
    \o InstallRange2(RealTNUMs, "CopyObjFuncs", "CopyObjError",
                     "CleanObjFuncs", "CleanObjError")
    \o InstallRange2(ConstantTNUMs, "CopyObjFuncs", "CopyObjConstant",
                     "CleanObjFuncs", "CleanObjConstant")
    \o Install("CopyObjFuncs", "T_POSOBJ", "CopyObjPosObj")
    \o Install("CopyObjFuncs", COPYING("T_POSOBJ"), "CopyObjPosObjCopy")
    \o Install("CleanObjFuncs", "T_POSOBJ", "CleanObjPosObj")
    \o Install("CleanObjFuncs", COPYING("T_POSOBJ"), "CleanObjPosObjCopy")
    \o Install("CopyObjFuncs", "T_COMOBJ", "CopyObjComObj")
    \o Install("CopyObjFuncs", COPYING("T_COMOBJ"), "CopyObjComObjCopy")
    \o Install("CleanObjFuncs", "T_COMOBJ", "CleanObjComObj")
    \o Install("CleanObjFuncs", COPYING("T_COMOBJ"), "CleanObjComObjCopy")
    \o Install("CopyObjFuncs", "T_DATOBJ", "CopyObjDatObj")
    \o Install("CopyObjFuncs", COPYING("T_DATOBJ"), "CopyObjDatObjCopy")
    \o Install("CleanObjFuncs", "T_DATOBJ", "CleanObjDatObj")
    \o Install("CleanObjFuncs", COPYING("T_DATOBJ"), "CleanObjDatObjCopy")
    \o InstallRange(RealTNUMs, "PrintObjFuncs", "PrintObjObject")
    \o InstallRange(RealTNUMs, "PrintPathFuncs", "PrintPathError")
    \o InstallRange2(RealTNUMs, "SaveObjFuncs", "SaveObjError",
                     "LoadObjFuncs", "LoadObjError")
    \o Install("SaveObjFuncs", "T_COMOBJ", "SaveComObj")
    \o Install("SaveObjFuncs", "T_POSOBJ", "SavePosObj")
    \o Install("SaveObjFuncs", "T_DATOBJ", "SaveDatObj")
    \o Install("LoadObjFuncs", "T_COMOBJ", "LoadComObj")
    \o Install("LoadObjFuncs", "T_POSOBJ", "LoadPosObj")
    \o Install("LoadObjFuncs", "T_DATOBJ", "LoadDatObj")

\* mutant: the loop that enters MakeImmutableError comes after the three
\* functions are installed
InitKernelProgram_ErrorsLast ==
    InitKernelTables
    \o Install("MakeImmutableObjFuncs", "T_COMOBJ", "MakeImmutableComObj")
    \o Install("MakeImmutableObjFuncs", "T_POSOBJ", "MakeImmutablePosObj")
    \o Install("MakeImmutableObjFuncs", "T_DATOBJ", "MakeImmutableDatObj")
    \o InstallRange(RealTNUMs, "MakeImmutableObjFuncs", "MakeImmutableError")

\* the assignments of InitKernel to the tables, in their order
InitKernelProgram ==
    InitKernelTables
    \o InstallRange(RealTNUMs, "MakeImmutableObjFuncs", "MakeImmutableError")
    \o Install("MakeImmutableObjFuncs", "T_COMOBJ", "MakeImmutableComObj")
    \o Install("MakeImmutableObjFuncs", "T_POSOBJ", "MakeImmutablePosObj")
    \o Install("MakeImmutableObjFuncs", "T_DATOBJ", "MakeImmutableDatObj")

\* the tables and the tags each is declared for
TableNames ==
    {"TypeObjFuncs", "SetTypeObjFuncs", "IsMutableObjFuncs", "IsCopyableObjFuncs",
     "ShallowCopyObjFuncs", "CopyObjFuncs", "CleanObjFuncs", "PrintObjFuncs",
     "PrintPathFuncs", "SaveObjFuncs", "LoadObjFuncs", "MakeImmutableObjFuncs"}

TableTags(table) ==
    IF table \in {"CopyObjFuncs", "CleanObjFuncs"}
      THEN RealTNUMs \cup CopyingTNUMs
      ELSE RealTNUMs

\* what the error functions pass to ErrorQuit: the name or the number of the
\* type of the object
ErrorBodies ==
    [TypeObjError |-> "TNAM_OBJ", SetTypeObjError |-> "TNAM_OBJ",
     IsMutableObjError |-> "TNUM_OBJ", IsCopyableObjError |-> "TNUM_OBJ",
     ShallowCopyObjError |-> "TNUM_OBJ", CopyObjError |-> "TNUM_OBJ",
     CleanObjError |-> "TNUM_OBJ", PrintPathError |-> "TNUM_OBJ",
     SaveObjError |-> "TNUM_OBJ", LoadObjError |-> "TNUM_OBJ",
     MakeImmutableError |-> "TNAM_OBJ"]

NotDispatched == [table |-> "none"]

\* the next assignment of InitKernel
InitKernelStep ==
    /\ tables # NoTables
    /\ tables.at <= Len(InitKernelProgram)
    /\ tables' = [tables EXCEPT
                    !.at = @ + 1,
                    !.funcs[InitKernelProgram[tables.at].table]
                           [InitKernelProgram[tables.at].tag] =
                        InitKernelProgram[tables.at].body]
    /\ UNCHANGED << copyVars, ds, swLog, entryVars, printVars, other >>

\* (*table[ TNUM_OBJ(obj) ])( obj ), after InitKernel: the function called,
\* and the error it ends in
Dispatch ==
    \E table \in TableNames \ {"CopyObjFuncs", "CleanObjFuncs"}, tag \in RealTNUMs :
        /\ tables # NoTables
        /\ tables.at > Len(InitKernelProgram)
        /\ tables' = [tables EXCEPT !.called =
              [table |-> table, tag |-> tag, body |-> tables.funcs[table][tag],
               error |-> IF tables.funcs[table][tag] = "NULL"
                           THEN "call of a null pointer"
                           ELSE IF tables.funcs[table][tag] \in DOMAIN ErrorBodies
                                  THEN "ErrorQuit"
                                  ELSE "none",
               type |-> IF tables.funcs[table][tag] \in DOMAIN ErrorBodies
                          THEN << ErrorBodies[tables.funcs[table][tag]], tag >>
                          ELSE << >>]]
        /\ UNCHANGED << copyVars, ds, swLog, entryVars, printVars, other >>

InitInitKernel ==
    /\ tables = [at |-> 1,
                 funcs |-> [table \in TableNames |->
                              [tag \in TableTags(table) |-> "NULL"]],
                 called |-> NotDispatched]
    /\ other = NoOther
    /\ bags = KindBags
    /\ ds = [h \in 1 .. Len(bags) |-> 0]
    /\ swLog = << >>
    /\ EntryIdle
    /\ PrintIdle
    /\ bags0 = bags
    /\ stack = << >>
    /\ call = NoCall
    /\ ret = 0
    /\ pc = "none"
    /\ rootArg = 0
    /\ mutArg = 0
    /\ newCopy = 0
    /\ copiedObjs = 0
    /\ allocLog = << >>
    /\ errObj = 0

NextInitKernel ==
    \/ InitKernelStep
    \/ Dispatch

SpecInitKernel == InitInitKernel /\ [][NextInitKernel]_vars

\* the tables the operations of the claim go through
ClaimTables ==
    {"TypeObjFuncs", "SetTypeObjFuncs", "IsMutableObjFuncs", "IsCopyableObjFuncs",
     "ShallowCopyObjFuncs", "PrintObjFuncs", "PrintPathFuncs", "SaveObjFuncs",
     "LoadObjFuncs", "MakeImmutableObjFuncs"}

\* the assignments of InitKernel that register a function that is no error
\* function, for <table> and <tag>
Registrations(table, tag) ==
    { k \in 1 .. Len(InitKernelProgram) :
        /\ InitKernelProgram[k].table = table
        /\ InitKernelProgram[k].tag = tag
        /\ InitKernelProgram[k].body \notin DOMAIN ErrorBodies }

Max(S) == CHOOSE m \in S : \A k \in S : k <= m

RootCopied ==
    /\ pc = "done"
    /\ IsMutableBag(bags0, rootArg)
    /\ IS_COPYABLE_OBJ(bags0, rootArg)

\* the result is a new bag with the tag and the size of the root, the
\* length and the names of a component object, the words of a data object;
\* a slot of it holds the copy of what the slot of the root held
ResultShaped ==
    /\ newCopy \notin Handles(bags0)
    /\ newCopy \in Handles(bags)
    /\ bags[newCopy].tnum = bags0[rootArg].tnum
    /\ Len(bags[newCopy].data) = Len(bags0[rootArg].data)
    /\ bags0[rootArg].tnum = "T_COMOBJ" =>
          /\ LEN_PREC(bags, newCopy) = LEN_PREC(bags0, rootArg)
          /\ \A i \in 1 .. LEN_PREC(bags0, rootArg) :
                GET_RNAM_PREC(bags, newCopy, i) = GET_RNAM_PREC(bags0, rootArg, i)
    /\ bags0[rootArg].tnum = "T_DATOBJ" =>
          \A w \in 2 .. Len(bags0[rootArg].data) :
              bags[newCopy].data[w] = bags0[rootArg].data[w]
    /\ \A w \in RefSlots(bags0, rootArg) :
          /\ bags[newCopy].data[w] = Image(bags0[rootArg].data[w])
          /\ bags0[rootArg].data[w] = 0 => bags[newCopy].data[w] = 0

\* the objects of the source graph that were mutable when CopyObj was called
MutableSources == { o \in Handles(bags0) : IsMutableBag(bags0, o) }

\* the objects reachable from the result through the copies alone
ReachableThroughCopies ==
    Closure(bags, {newCopy}, [o \in Handles(bags) |-> o \notin Handles(bags0)])

(***************************************************************************)
(* C22, as claimed.  The object CopyObj returns for a mutable copyable     *)
(* root is a new bag with the tag, size and length (names) of the root,    *)
(* its slots after the first hold the copies of what the slots of the root *)
(* held, and no mutable object of the source graph is reachable from it.   *)
(***************************************************************************)
C22_NoMutableSourceReachable ==
    RootCopied =>
        /\ ResultShaped
        /\ Reachable(bags, newCopy) \cap MutableSources = {}

(***************************************************************************)
(* C22, amended.  The object CopyObj returns for a mutable copyable root   *)
(* is a new bag with the tag, size and length (names) of the root, its     *)
(* slots after the first hold the copies of what the slots of the root     *)
(* held (an empty slot stays empty, the words of a data object are copied  *)
(* as they are), and no mutable object of the source graph is reachable    *)
(* from it through copies alone: a mutable source object is reachable from *)
(* the result only through an immutable object, which the copy shares with *)
(* the source.                                                             *)
(***************************************************************************)
C22_ResultIsFreshCopy ==
    RootCopied =>
        /\ ResultShaped
        /\ ReachableThroughCopies \cap MutableSources = {}
        /\ \A o \in Reachable(bags, newCopy) \cap MutableSources :
              \E i \in Reachable(bags, newCopy) \cap Handles(bags0) :
                  /\ ~ IsMutableBag(bags0, i)
                  /\ o \in Reachable(bags0, i)

\* the root held an empty slot and a mutable object, which was copied too
C22_Witness ==
    /\ RootCopied
    /\ bags0[rootArg].tnum = "T_POSOBJ"
    /\ bags0[rootArg].data[2] = 0
    /\ bags0[rootArg].data[3] = Second
    /\ IsMutableBag(bags0, Second)
    /\ bags[newCopy].data[2] = 0
    /\ bags[newCopy].data[3] \notin Handles(bags0)
    /\ Len(allocLog) >= 2

(***************************************************************************)
(* What follows the '~' of a back-reference.                               *)
(***************************************************************************)
\* the pending call is for a list or record that an open call is for
BackReference == SelfReference /\ IS_MARKABLE(bags, pcall.obj)

\* what the step has printed after its '~'
AfterTilde ==
    LET n == CHOOSE n \in Len(out) + 1 .. Len(out') :
                 out'[n].s = "~" /\ out'[n].o = pcall.obj
    IN  SubSeq(out', n + 1, Len(out'))

TildePrinted ==
    \E n \in Len(out) + 1 .. Len(out') : out'[n].s = "~" /\ out'[n].o = pcall.obj

\* the indices of the ancestors that are <obj>, once the call has entered
Matches(obj) ==
    { i \in 0 .. PrintObjDepth - 1 : PrintObjThiss'[i] = obj }

\* the selector recorded for the frame at index <i>
Selector(i) ==
    Tok(PrintPathFuncs[TNUM_OBJ(bags, PrintObjThiss'[i])], PrintObjThiss'[i],
        PrintObjIndices'[i], "")

\* the selectors of the frames <from> .. <to>
Selectors(from, to) == [k \in 1 .. to - from + 1 |-> Selector(from + k - 1)]

\* the frames before <m> whose type has no path function but PrintPathError
NoSelector(m) ==
    { i \in 0 .. m - 1 :
        TNUM_OBJ(bags, PrintObjThiss'[i]) \notin RecordTNUMs \cup ListTNUMs }

(***************************************************************************)
(* C23, as claimed.  When PrintObj or ViewObj reaches a list or record     *)
(* that is on the ancestor stack, '~' is followed by the selectors of the  *)
(* frames from the nearest ancestor that is the object down to the current *)
(* position.                                                               *)
(***************************************************************************)
C23_PathFromNearestAncestor ==
    [][BackReference =>
          /\ TildePrinted
          /\ AfterTilde = Selectors(Max(Matches(pcall.obj)), PrintObjDepth - 1)]_vars

(***************************************************************************)
(* C23, amended.  When PrintObj or ViewObj reaches a list or record that   *)
(* is on the ancestor stack, '~' is followed by the selectors of the       *)
(* frames from the outermost one (index 0) down to, and without, the       *)
(* first ancestor that is the object: the path from the root to the        *)
(* object, nothing for the root itself.  The selectors end, with the       *)
(* fatal error of PrintPathError, at a frame that is no list or record.    *)
(***************************************************************************)
C23_PathStep ==
    BackReference =>
        /\ TildePrinted
        /\ Matches(pcall.obj) # {}
        /\ LET m == CHOOSE i \in Matches(pcall.obj) :
                        \A j \in Matches(pcall.obj) : i <= j
           IN  IF NoSelector(m) = {}
                 THEN /\ AfterTilde = Selectors(0, m - 1)
                      /\ pstate' = "run"
                 ELSE /\ AfterTilde =
                           Selectors(0, (CHOOSE i \in NoSelector(m) :
                                           \A j \in NoSelector(m) : i <= j) - 1)
                      /\ pstate' = "error"

C23_PathFromRoot == [][C23_PathStep]_vars

\* the second list, inside the first, has met itself: '~' and the selector
\* of the first list
C23_Witness ==
    /\ pstate = "run"
    /\ \E k \in 1 .. Len(out) - 1 :
          /\ out[k].s = "~"
          /\ out[k].o = Second
          /\ out[k + 1] = Tok("PrintPathList", Root, 1, "")
    /\ bags[Root].tnum = "T_PLIST"

(***************************************************************************)
(* C24.  When the view body of ViewObj(obj) calls PrintObj for obj, and    *)
(* that view is the innermost open call, PrintObj enters no new frame in   *)
(* the ancestor arrays and leaves the depth as it is, dispatches to the    *)
(* print body of obj and prints no '~'; when the print body has returned,  *)
(* the depth and the current object are still those of the view and        *)
(* LastPV is 2 (view) again.                                               *)
(***************************************************************************)
C24_PrintFromViewStep ==
    /\ (pstate = "run" /\ FromView) =>
          /\ pstack # << >>
          /\ PTop.fn = "ViewObj"
          /\ PTop.obj = pcall.obj
          /\ PrintObjDepth' = PrintObjDepth
          /\ PrintObjThis' = pcall.obj
          /\ PrintObjThiss' = PrintObjThiss
          /\ PrintObjIndices' = PrintObjIndices
          /\ pstack' = Append(pstack, PFrame("PrintObj", pcall.obj, 2, TRUE))
          /\ CallToks' = Append(CallToks,
                                Tok("PrintObj", pcall.obj, PrintObjDepth, "body"))
          /\ \A n \in Len(out) + 1 .. Len(out') : out'[n].s # "~"
          /\ LastPV' = 1
    /\ (InBody("PrintObj") /\ PTop.fromview
        /\ PTop.j > Len(BodyCalls(bags, PTop))) =>
          /\ pstack' = PPop
          /\ PTop.obj = PrintObjThis
          /\ pstack'[Len(pstack')].fn = "ViewObj"
          /\ pstack'[Len(pstack')].obj = PTop.obj
          /\ PrintObjDepth' = PrintObjDepth
          /\ PrintObjThis' = PrintObjThis
          /\ LastPV' = 2

C24_PrintFromView == [][C24_PrintFromViewStep]_vars

\* the view body of a list that contains itself has printed the list, the
\* print body has printed '~' for the element and has returned to the view
C24_Witness ==
    /\ pstate = "run"
    /\ Len(pstack) = 1
    /\ PTop.fn = "ViewObj"
    /\ PTop.obj = Root
    /\ LastPV = 2
    /\ PrintObjDepth = 1
    /\ IS_MARKABLE(bags, Root)
    /\ Len(CallToks) = 3
    /\ CallToks[1] = Tok("ViewObj", Root, 1, "body")
    /\ CallToks[2] = Tok("PrintObj", Root, 1, "body")
    /\ CallToks[3] = Tok("PrintObj", Root, 2, "~")

(***************************************************************************)
(* The return of a call of PrintObj or ViewObj.                            *)
(***************************************************************************)
\* the pending call returns in this step: it prints the placeholder, the
\* notice or the path
ReturnsAtOnce ==
    /\ pstate = "run"
    /\ pcall # NoPCall
    /\ pstate' = "run"
    /\ pstack' = pstack

\* the body of the call on top has returned, and the call returns
ReturnsFromBody ==
    /\ pstate = "run"
    /\ pcall = NoPCall
    /\ pstack # << >>
    /\ PTop.j > Len(BodyCalls(bags, PTop))

(***************************************************************************)
(* C25, as claimed.  When a call of PrintObj or ViewObj returns, the depth *)
(* and LastPV are what they were before the call, and so are the current   *)
(* object and the selector index if the depth was above 0 before the call. *)
(***************************************************************************)
C25_AllRestoredStep ==
    /\ ReturnsAtOnce =>
          /\ PrintObjDepth' = PrintObjDepth
          /\ LastPV' = LastPV
          /\ PrintObjDepth > 0 =>
                /\ PrintObjThis' = PrintObjThis
                /\ PrintObjIndex' = PrintObjIndex
    /\ ReturnsFromBody =>
          /\ pstack' = PPop
          /\ PrintObjDepth' = PTop.before.PrintObjDepth
          /\ LastPV' = PTop.before.LastPV
          /\ PTop.before.PrintObjDepth > 0 =>
                /\ PrintObjThis' = PTop.before.PrintObjThis
                /\ PrintObjIndex' = PTop.before.PrintObjIndex

C25_AllRestored == [][C25_AllRestoredStep]_vars

(***************************************************************************)
(* C25, amended.  When a call of PrintObj or ViewObj returns, the depth    *)
(* and LastPV are what they were before the call, and so is the current    *)
(* object if the depth was above 0; the selector index is what it was      *)
(* before the call unless the call is PrintObj called from the view of the *)
(* same object, which has no frame of its own and leaves the index as its  *)
(* print body has set it.                                                  *)
(***************************************************************************)
C25_StackDisciplineStep ==
    /\ ReturnsAtOnce =>
          /\ PrintObjDepth' = PrintObjDepth
          /\ LastPV' = LastPV
          /\ PrintObjDepth > 0 =>
                /\ PrintObjThis' = PrintObjThis
                /\ PrintObjIndex' = PrintObjIndex
    /\ ReturnsFromBody =>
          /\ pstack' = PPop
          /\ PrintObjDepth' = PTop.before.PrintObjDepth
          /\ LastPV' = PTop.before.LastPV
          /\ PTop.before.PrintObjDepth > 0 =>
                /\ PrintObjThis' = PTop.before.PrintObjThis
                /\ IF PTop.fromview
                     THEN PrintObjIndex' = PrintObjIndex
                     ELSE PrintObjIndex' = PTop.before.PrintObjIndex

C25_StackDiscipline == [][C25_StackDisciplineStep]_vars

\* the call for the second object, inside the body of the first, has
\* dispatched to its body, which has printed a back-reference, and has
\* returned
C25_Witness ==
    /\ pstate = "run"
    /\ pcall = NoPCall
    /\ Len(pstack) = 1
    /\ PTop.obj = Root
    /\ PTop.j = 2
    /\ PrintObjDepth = 1
    /\ PrintObjThis = Root
    /\ PrintObjIndex = 1
    /\ LastPV = 1
    /\ Len(CallToks) = 3
    /\ CallToks[2] = Tok("PrintObj", Second, 2, "body")
    /\ CallToks[3].s = "~"

(***************************************************************************)
(* The calls MakeImmutable makes.                                          *)
(***************************************************************************)
\* the calls of the first MakeImmutable, and those of the second
FirstCalls ==
    IF entry.verdict = "returned twice"
      THEN SubSeq(entry.calls, 1,
                  (CHOOSE k \in 1 .. Len(entry.calls) :
                       entry.calls[k].fn = "MakeImmutable") - 1)
      ELSE entry.calls

SecondCalls ==
    SubSeq(entry.calls, Len(FirstCalls) + 2, Len(entry.calls))

HookCalls(calls) ==
    { k \in 1 .. Len(calls) : calls[k].fn = "PostMakeImmutableOp" }

(***************************************************************************)
(* C26.  MakeImmutable for a mutable component or positional object calls  *)
(* PostMakeImmutableOp once, when the object is no longer mutable; for a   *)
(* mutable data object it resets the filter and does not call              *)
(* PostMakeImmutableOp; for an object that is not mutable it calls nothing *)
(* (no function of the table, not even for a type that has                 *)
(* MakeImmutableError there) and leaves the heap as it is.  A second       *)
(* MakeImmutable calls nothing and changes nothing.                        *)
(***************************************************************************)
C26_MakeImmutableCalls ==
    (entry # NoEntry /\ entry.op = "MakeImmutable") =>
        LET pre == entry.bags
            obj == entry.obj
        IN  /\ ~ IS_MUTABLE_OBJ(bags, obj)
            /\ (IS_MUTABLE_OBJ(pre, obj)
                /\ TNUM_OBJ(pre, obj) \in {"T_COMOBJ", "T_POSOBJ"}) =>
                  /\ Cardinality(HookCalls(FirstCalls)) = 1
                  /\ \A k \in HookCalls(FirstCalls) :
                        /\ FirstCalls[k].obj = obj
                        /\ ~ FirstCalls[k].mutable
                        /\ \E j \in 1 .. k - 1 :
                              FirstCalls[j].fn = "RESET_FILTER_OBJ"
            /\ (IS_MUTABLE_OBJ(pre, obj) /\ TNUM_OBJ(pre, obj) = "T_DATOBJ") =>
                  /\ HookCalls(FirstCalls) = {}
                  /\ \E j \in 1 .. Len(FirstCalls) :
                        FirstCalls[j].fn = "RESET_FILTER_OBJ"
            /\ ~ IS_MUTABLE_OBJ(pre, obj) =>
                  /\ FirstCalls = << >>
                  /\ entry.verdict = "returned" => bags = pre
            /\ entry.verdict = "returned twice" =>
                  /\ SecondCalls = << >>
                  /\ bags = entry.arg
                  /\ bags = MakeImmutable(pre, obj)

\* a mutable component object has been made immutable twice
C26_Witness ==
    /\ entry # NoEntry
    /\ entry.op = "MakeImmutable"
    /\ entry.verdict = "returned twice"
    /\ entry.obj = Root
    /\ entry.bags[Root].tnum = "T_COMOBJ"
    /\ IS_MUTABLE_OBJ(entry.bags, Root)
    /\ Len(FirstCalls) = 3
    /\ bags # entry.bags

(***************************************************************************)
(* The regions of the objects a deep copy marks.                           *)
(***************************************************************************)
\* a deep copy has been started through one of the two handlers
DeepCopyEntered ==
    /\ entry # NoEntry
    /\ entry.op \in {"IMMUTABLE_COPY_OBJ", "DEEP_COPY_OBJ"}
    /\ entry.verdict = "copying"

\* the objects that have the +COPYING tag, or have had a forwarding record
\* put into their first slot
Marked ==
    { h \in Handles(bags) : bags[h].tnum \in CopyingTNUMs } \cup CopiedSrcs

(***************************************************************************)
(* C27 as stated.  During a deep copy started through IMMUTABLE_COPY_OBJ   *)
(* or DEEP_COPY_OBJ every object that is retagged or gets a forwarding     *)
(* record is in no region or in a region of the calling thread.            *)
(***************************************************************************)
C27_OnlyOwnObjectsMarked ==
    DeepCopyEntered =>
        \A h \in Marked : ds[h] = 0 \/ Regions[ds[h]].owner = TLS

(***************************************************************************)
(* C28.  CLONE_OBJ(dst, src) for a mutable src that refers to itself (the  *)
(* case the comment before FuncCLONE_OBJ warns of): where a slot of src    *)
(* held src, the slot of dst holds the copy CopyObj made of src, which is  *)
(* a new bag and not dst; dst does not refer to itself there.              *)
(***************************************************************************)
C28_CloneOfSelfReference ==
    (/\ CloneEnded
     /\ entry.verdict = "returned"
     /\ IS_BAG_REF(entry.obj)
     /\ IS_BAG_REF(entry.arg)
     /\ IS_MUTABLE_OBJ(entry.bags, entry.arg)) =>
        \A k \in RefSlots(entry.bags, entry.arg) :
            entry.bags[entry.arg].data[k] = entry.arg =>
                /\ bags[entry.obj].data[k] = newCopy
                /\ newCopy # entry.obj
                /\ newCopy \notin Handles(entry.bags)
                /\ bags[newCopy].data[k] = newCopy

\* a positional object that holds itself twice has been cloned into the
\* second object
C28_Witness ==
    /\ CloneEnded
    /\ entry.verdict = "returned"
    /\ entry.obj = Second
    /\ entry.arg = Root
    /\ IS_MUTABLE_OBJ(entry.bags, Root)
    /\ entry.bags[Root].tnum = "T_POSOBJ"
    /\ entry.bags[Root].data[2] = Root
    /\ entry.bags[Root].data[3] = Root
    /\ bags[Second].data[2] = newCopy
    /\ bags[Second].data[3] = newCopy

(***************************************************************************)
(* C29 as stated.  When the copy has ended in ErrorQuit at a mutable       *)
(* object below the root that is not copyable, no object of the source     *)
(* graph has a +COPYING tag and none has a forwarding record in its first  *)
(* slot: every source bag is what it was before the call.                  *)
(***************************************************************************)
C29_FailedCopyLeavesSource ==
    (pc = "error" /\ errObj # rootArg) =>
        \A h \in Handles(bags0) :
            /\ bags[h].tnum \notin CopyingTNUMs
            /\ bags[h].tnum = bags0[h].tnum
            /\ bags[h].data[1] = bags0[h].data[1]

(***************************************************************************)
(* PrintObj in a second thread.  PrintObjThis, PrintObjIndex,              *)
(* PrintObjDepth, PrintObjThiss, PrintObjIndices and LastPV are globals of *)
(* the process, one copy for all threads; the locals of the second         *)
(* thread's call are in <other>.  The second thread prints the second      *)
(* object, which has no sub-objects: its body makes no further call.  The  *)
(* threads take turns at the entry and at the return of a call.            *)
(***************************************************************************)
OtherTok(s) == Tok("PrintObj", other.obj, PrintObjDepth, s)

\* PrintObj( obj ) in the second thread, up to the dispatch to the body, or
\* to its end when the notice or the path is printed
OtherPrintObj ==
    /\ other # NoOther
    /\ other.at = "start"
    /\ LET obj     == other.obj
           lastPV  == LastPV
           fv      == fromview(lastPV, obj, PrintObjThis)
           save    == ~ fv /\ 0 < PrintObjDepth
           thiss   == IF save
                        THEN [PrintObjThiss EXCEPT ![PrintObjDepth - 1] = PrintObjThis]
                        ELSE PrintObjThiss
           indices == IF save
                        THEN [PrintObjIndices EXCEPT ![PrintObjDepth - 1] = PrintObjIndex]
                        ELSE PrintObjIndices
           depth   == IF fv THEN PrintObjDepth ELSE PrintObjDepth + 1
           this    == IF fv THEN PrintObjThis ELSE obj
           index   == IF fv THEN PrintObjIndex ELSE 0
       IN  /\ PrintObjThiss' = thiss
           /\ PrintObjIndices' = indices
           /\ IF ~ IS_MARKED(bags, thiss, depth, this)
                THEN IF DepthAllows(depth)
                       THEN /\ other' = [other EXCEPT
                                  !.at = "body", !.lastPV = lastPV, !.fromview = fv,
                                  !.out = Append(@, Tok("PrintObj", this, depth, "body"))]
                            /\ PrintObjDepth' = depth
                            /\ PrintObjThis' = this
                            /\ PrintObjIndex' = index
                            /\ LastPV' = 1
                            /\ UNCHANGED touched
                       ELSE /\ other' = [other EXCEPT
                                  !.at = "done", !.lastPV = lastPV, !.fromview = fv,
                                  !.out = Append(@, Tok("PrintObj", this, depth,
                                                        "too many recursion levels!"))]
                            /\ Leave(fv, lastPV, depth, this, index, thiss,
                                     indices, touched)
                ELSE IF PathError(bags, thiss, depth, this)
                       THEN /\ other' = [other EXCEPT
                                  !.at = "error", !.lastPV = lastPV, !.fromview = fv,
                                  !.out = Append(@, Tok("PrintObj", this, depth, "~")) \o
                                          PathOut(bags, thiss, indices, depth, this)]
                            /\ PrintObjDepth' = depth
                            /\ PrintObjThis' = this
                            /\ PrintObjIndex' = index
                            /\ LastPV' = 1
                            /\ UNCHANGED touched
                       ELSE /\ other' = [other EXCEPT
                                  !.at = "done", !.lastPV = lastPV, !.fromview = fv,
                                  !.out = Append(@, Tok("PrintObj", this, depth, "~")) \o
                                          PathOut(bags, thiss, indices, depth, this)]
                            /\ Leave(fv, lastPV, depth, this, index, thiss,
                                     indices, touched)
    /\ UNCHANGED << copyVars, ds, swLog, entryVars, tables, pstack, pcall, intr,
                    viewPrints, pstate, out >>

\* the body of the second thread's call has returned: "done with <obj>"
OtherPrintObjDone ==
    /\ other # NoOther
    /\ other.at = "body"
    /\ Leave(other.fromview, other.lastPV, PrintObjDepth, PrintObjThis,
             PrintObjIndex, PrintObjThiss, PrintObjIndices, touched)
    /\ other' = [other EXCEPT !.at = "done"]
    /\ UNCHANGED << copyVars, ds, swLog, entryVars, tables, pstack, pcall, intr,
                    viewPrints, pstate, out, PrintObjThiss, PrintObjIndices >>

\* the first thread prints or views the first object, the second thread
\* prints the second; every object may be read by both
InitPrintRace ==
    /\ \E t1 \in PrintTNUMs, t2 \in PrintTNUMs, s1 \in SubsChoices :
          bags = KindBags \o << PrintBag(t1, s1), PrintBag(t2, << >>) >>
    /\ ds = [h \in 1 .. Len(bags) |-> IF h \in Kinds THEN 0 ELSE 1]
    /\ pcall \in { [fn |-> f, obj |-> Root] : f \in {"PrintObj", "ViewObj"} }
    /\ viewPrints \in BOOLEAN
    /\ pcall.fn = "PrintObj" => ~ viewPrints
    /\ intr = FALSE
    /\ other = [at |-> "start", obj |-> Second, lastPV |-> 0, fromview |-> FALSE,
                out |-> << >>]
    /\ tables = NoTables
    /\ PrintObjThis = 0
    /\ PrintObjIndex = 0
    /\ PrintObjDepth = 0
    /\ PrintObjThiss = [i \in 0 .. MAXPRINTDEPTH - 1 |-> 0]
    /\ PrintObjIndices = [i \in 0 .. MAXPRINTDEPTH - 1 |-> 0]
    /\ LastPV = 0
    /\ pstack = << >>
    /\ pstate = "run"
    /\ out = << >>
    /\ touched = {}
    /\ swLog = << >>
    /\ EntryIdle
    /\ bags0 = bags
    /\ stack = << >>
    /\ call = NoCall
    /\ ret = 0
    /\ pc = "idle"
    /\ rootArg = 0
    /\ mutArg = 0
    /\ newCopy = 0
    /\ copiedObjs = 0
    /\ allocLog = << >>
    /\ errObj = 0

NextPrintRace ==
    \/ PrintObj
    \/ ViewObj
    \/ PrintObjObject
    \/ PrintObjDone
    \/ ViewObjMethod
    \/ ViewObjDone
    \/ OtherPrintObj
    \/ OtherPrintObjDone

SpecPrintRace == InitPrintRace /\ [][NextPrintRace]_vars

\* the globals of printing
PrintGlobals ==
    << PrintObjDepth, PrintObjThiss, PrintObjIndices, PrintObjThis,
       PrintObjIndex, LastPV >>

\* a call of the second thread is entered or left
OtherThreadStep == other' # other

\* no step of the second thread changes what the first thread sees
C30_OtherLeavesGlobals == [][OtherThreadStep => UNCHANGED PrintGlobals]_vars

\* when a call of the first thread returns from its body, the depth is what
\* it was before the call
C30_DepthBalanced ==
    [][(~ OtherThreadStep /\ ReturnsFromBody) =>
          PrintObjDepth' = PTop.before.PrintObjDepth]_vars

\* the first thread prints '~' only for an object one of its own open calls
\* is for
C30_OwnAncestorsOnly ==
    [][(~ OtherThreadStep /\ pstate = "run" /\ pcall # NoPCall /\ TildePrinted) =>
          pcall.obj \in OpenObjs]_vars

(***************************************************************************)
(* C30 as stated.  With PrintObj or ViewObj running in two threads on      *)
(* different objects, no step of one thread changes the depth, the         *)
(* ancestor entries, the current object, the selector index or LastPV the  *)
(* other thread sees; the depth of a thread is balanced when its call      *)
(* returns, and '~' is printed for no object that is on the stack of the   *)
(* other thread only.                                                      *)
(***************************************************************************)
C30_ThreadsApart ==
    [][/\ OtherThreadStep => UNCHANGED PrintGlobals
       /\ (~ OtherThreadStep /\ ReturnsFromBody) =>
             PrintObjDepth' = PTop.before.PrintObjDepth
       /\ (~ OtherThreadStep /\ pstate = "run" /\ pcall # NoPCall /\ TildePrinted) =>
             pcall.obj \in OpenObjs]_vars

====
